---- MODULE Spec2Model ----
(***************************************************************************)
(* Model of the wearable's FallDetector (src/esp/src/main.cpp).            *)
(*                                                                         *)
(* Fixed-point conventions (the source uses 32-bit floats):                *)
(*   acceleration   integer m/s^2                                          *)
(*   svm            integer centi-g  (1.00 g = 100)                        *)
(*   jerk           integer m/s^3                                          *)
(*   angular rate   integer deg/s                                          *)
(*   angles         integer degrees                                        *)
(*   time           integer milliseconds (millis())                        *)
(* Write-only fields of the class (svm_trend, vertical_motion_counter) are *)
(* left out: no statement of the program reads them.                       *)
(*                                                                         *)
(* detectFall is modelled as the class exposes it: it accepts any          *)
(* SensorData at any time after the previous call. The firmware's loop()   *)
(* (setSensitivityProfile(2), calibrate, then one call per                 *)
(* READ_INTERVAL_MS plus processing time) is one such caller.              *)
(***************************************************************************)
EXTENDS Integers, Sequences, FiniteSets, TLC

\* fd          the FallDetector object (its private fields)
\* cfg         the threshold parameters setSensitivityProfile rewrites
\* now         millis() at the latest call
\* ticks       number of detectFall calls made
\* prev_pitch, prev_roll   the function-local statics of detectFall
\* scored      what stage 5 of the latest call computed (its locals)
\* path        current_state at entry of the latest call and after each of
\*             its stages that assigns it
\* script      position in the scripted fall sequence
\* node        the device's LoRaComm object
\* tx          outcome of the last sendUplink call and the calls that sent
\* air         the packet the relay's radio holds (in SpecRelay: the packet
\*             its last loop() read), <<>> when there is none
\* relay       the relay's globals
\* polls       packets the relay has read in the relay specification
\* host        the serial line from the relay to the host and the host's
\*             frame parser
\* backend     the API server's clock and alert bookkeeping
\* written     the chunks of bytes the host has written to the relay's serial
\*             input in the line specification, in order
VARIABLES fd, cfg, now, ticks, prev_pitch, prev_roll, scored, path, script,
          node, tx, air, relay, polls, host, backend, written

fdVars == <<fd, cfg, now, ticks, prev_pitch, prev_roll, scored, path, script>>

linkVars == <<node, tx, air, relay, polls, host, backend, written>>

vars == <<fd, cfg, now, ticks, prev_pitch, prev_roll, scored, path, script,
          node, tx, air, relay, polls, host, backend, written>>

\* ------------------------------------------------------------------------
\* Bounds of the model
\* ------------------------------------------------------------------------
\* number of loop() iterations of the open-input specification
MaxTicks == 3
\* number of loop() iterations of the fall-episode specification
MaxEpisodeTicks == 14
\* number of detectFall calls of the cool-down specification
MaxCooldownTicks == 13
\* number of detectFall calls of the bowing specification
MaxBowTicks == 4
GettingUpSamples == 11
BriskSamples == 4
\* sendUplink calls that transmit in the uplink specification: one more
\* than the range of the frame counter
MaxSends == 65537
\* packets read by the relay in the relay specification
MaxPackets == 5
\* bytes waiting on the relay's serial input, and loop() iterations, in the
\* time-sync specification
MaxSerialIn == 22
MaxIdleLoops == 3
\* samples of the fall sequence spent in free fall, and in rotation from
\* the impact on, at the sequence's 100 ms sampling period
FreeFallSamples == 2
RotationSamples == 3

\* Largest square root the fixed-point arithmetic represents. MaxRoot^2
\* (SatLimit) stands for "larger than any threshold" where the code's float
\* or wrapped uint32 would be larger still.
MaxRoot == 46000
SatLimit == MaxRoot * MaxRoot

\* ------------------------------------------------------------------------
\* enum FallState
\* ------------------------------------------------------------------------
NORMAL == 0
WARNING == 1
FALL_DETECTED == 2
DANGEROUS == 3
RECOVERY == 4

FallStates == {NORMAL, WARNING, FALL_DETECTED, DANGEROUS, RECOVERY}

\* ------------------------------------------------------------------------
\* Arithmetic helpers
\* ------------------------------------------------------------------------
Abs(x) == IF x < 0 THEN -x ELSE x

\* uint32_t a - b. A wrapped difference (a < b) is 2^32-(b-a) in the code;
\* it is kept above every window of the program.
U32Sub(a, b) == IF a >= b THEN a - b ELSE SatLimit - (b - a)

\* uint8_t arithmetic
U8(x) == x % 256

SatAdd(a, b) == IF a > SatLimit - b THEN SatLimit ELSE a + b
SatSq(d) == IF Abs(d) > MaxRoot THEN SatLimit ELSE d * d

RECURSIVE SqrtSearch(_, _, _)
SqrtSearch(n, lo, hi) ==
  IF lo >= hi THEN lo
  ELSE LET mid == (lo + hi + 1) \div 2
       IN IF mid * mid <= n THEN SqrtSearch(n, mid, hi)
          ELSE SqrtSearch(n, lo, mid - 1)

\* sqrt() on non-negative fixed-point values, rounded down
ISqrt(n) == SqrtSearch(n, 0, MaxRoot)

\* atan() in degrees of the ratio lo/hi (0 <= lo <= hi, hi > 0):
\* r*(45 + 15.64*(1-r)), within 0.3 degree of atan
AtanRatioDeg(lo, hi) ==
  LET q == (1000 * lo) \div hi
  IN (q * (45000 + (1564 * (1000 - q)) \div 100) + 500000) \div 1000000

\* atan2(y, x) * 180 / PI, in whole degrees
Atan2Deg(y, x) ==
  LET ay == Abs(y)
      ax == Abs(x)
      base == IF ay = 0 /\ ax = 0 THEN 0
              ELSE IF ay <= ax THEN AtanRatioDeg(ay, ax)
              ELSE 90 - AtanRatioDeg(ax, ay)
      ang == IF x >= 0 THEN base ELSE 180 - base
  IN IF y >= 0 THEN ang ELSE -ang

\* ------------------------------------------------------------------------
\* Configurable threshold parameters (public fields of FallDetector)
\* ------------------------------------------------------------------------
DefaultConfig ==
  [ JERK_THRESHOLD_HIGH |-> 450000,
    JERK_THRESHOLD_MEDIUM |-> 300000,
    JERK_THRESHOLD_LOW |-> 200000,
    SVM_THRESHOLD_HIGH |-> 180,
    SVM_THRESHOLD_LOW |-> 65,
    SVM_THRESHOLD_WARNING |-> 140,
    SVM_THRESHOLD_IMPACT_PEAK |-> 220,
    GYRO_THRESHOLD_COMBINED |-> 180,
    GYRO_THRESHOLD_SUSTAINED |-> 120,
    PITCH_THRESHOLD |-> 40,
    ROLL_THRESHOLD |-> 35,
    POSTURE_CHANGE_RAPID |-> 60,
    IMPACT_COUNT_THRESHOLD |-> 2,
    WARNING_COUNT_THRESHOLD |-> 3,
    GYRO_SUSTAINED_COUNT |-> 3 ]

FALL_CONFIRMATION_WINDOW == 500
RECOVERY_TIME_WINDOW == 5000
IMMOBILITY_SAMPLING_INTERVAL == 100
FALL_SEQUENCE_WINDOW == 800
BOWING_REJECTION_TIME == 1500
IMMOBILITY_SAMPLE_COUNT == 10
IMMOBILITY_BUFFER_SIZE == 30

\* Immobility thresholds on the window's sums. With S the sum of the
\* IMMOBILITY_SAMPLE_COUNT samples x and D the sum of (10*x - S)^2, the
\* variance is D/1000; svm is in centi-g, so 0.005 g^2 = 50 and the
\* standard deviation 0.1 g is the variance 0.01 g^2 = 100.
IMMOBILITY_ACCEL_VARIANCE_THRESHOLD == 50
IMMOBILITY_ACCEL_STDDEV_THRESHOLD_SQ == 100
IMMOBILITY_GYRO_VARIANCE_THRESHOLD == 5
IMMOBILITY_SVM_RANGE_THRESHOLD == 10

\* pitch_rate / roll_rate limits of the rapid-posture test (deg/s)
PITCH_RATE_RAPID == 100
ROLL_RATE_RAPID == 80

\* setSensitivityProfile: the fields each case assigns
ProfileConfig(profile) ==
  IF profile = 0 THEN
    [cfg EXCEPT !.JERK_THRESHOLD_HIGH = 450000, !.JERK_THRESHOLD_MEDIUM = 250000,
                !.SVM_THRESHOLD_HIGH = 200, !.SVM_THRESHOLD_LOW = 60,
                !.GYRO_THRESHOLD_COMBINED = 200, !.GYRO_THRESHOLD_SUSTAINED = 140,
                !.PITCH_THRESHOLD = 45, !.ROLL_THRESHOLD = 38,
                !.IMPACT_COUNT_THRESHOLD = 3, !.GYRO_SUSTAINED_COUNT = 4]
  ELSE IF profile = 1 THEN
    [cfg EXCEPT !.JERK_THRESHOLD_HIGH = 350000, !.JERK_THRESHOLD_MEDIUM = 200000,
                !.SVM_THRESHOLD_HIGH = 180, !.SVM_THRESHOLD_LOW = 65,
                !.GYRO_THRESHOLD_COMBINED = 180, !.GYRO_THRESHOLD_SUSTAINED = 120,
                !.PITCH_THRESHOLD = 40, !.ROLL_THRESHOLD = 35,
                !.IMPACT_COUNT_THRESHOLD = 2, !.GYRO_SUSTAINED_COUNT = 3]
  ELSE IF profile = 2 THEN
    [cfg EXCEPT !.JERK_THRESHOLD_HIGH = 280000, !.JERK_THRESHOLD_MEDIUM = 150000,
                !.SVM_THRESHOLD_HIGH = 160, !.SVM_THRESHOLD_LOW = 70,
                !.GYRO_THRESHOLD_COMBINED = 160, !.GYRO_THRESHOLD_SUSTAINED = 100,
                !.PITCH_THRESHOLD = 35, !.ROLL_THRESHOLD = 30,
                !.IMPACT_COUNT_THRESHOLD = 1, !.GYRO_SUSTAINED_COUNT = 2]
  ELSE cfg

\* ------------------------------------------------------------------------
\* FallDetector(): the object after construction
\* ------------------------------------------------------------------------
InitEvent ==
  [ state |-> NORMAL, timestamp |-> 0, jerk_magnitude |-> 0, svm_value |-> 0,
    angular_velocity |-> 0, pitch_angle |-> 0, roll_angle |-> 0,
    confirmed |-> FALSE, movement_variance |-> 0, movement_stddev |-> 0,
    is_immobile |-> FALSE, immobile_duration |-> 0 ]

InitBuffer ==
  [ accel_samples |-> [i \in 0..(IMMOBILITY_BUFFER_SIZE - 1) |-> 0],
    gyro_samples |-> [i \in 0..(IMMOBILITY_BUFFER_SIZE - 1) |-> 0],
    svm_samples |-> [i \in 0..(IMMOBILITY_BUFFER_SIZE - 1) |-> 100],
    sample_index |-> 0,
    sample_count |-> 0 ]

InitDetector ==
  [ prev_accel_x |-> 0, prev_accel_y |-> 0, prev_accel_z |-> 0,
    baseline_pitch |-> 0, baseline_roll |-> 0,
    current_state |-> NORMAL,
    state_change_time |-> 0,
    last_fall_time |-> 0,
    impact_counter |-> 0,
    warning_counter |-> 0,
    gyro_sustained_counter |-> 0,
    last_sample_time |-> 0,
    last_immobility_check_time |-> 0,
    warning_start_time |-> 0,
    is_calibrated |-> FALSE,
    detected_freefall |-> FALSE,
    detected_impact |-> FALSE,
    detected_rotation |-> FALSE,
    freefall_time |-> 0,
    impact_time |-> 0,
    prev_svm |-> 100,
    latest_event |-> InitEvent,
    immobility_buffer |-> InitBuffer,
    immobility_start_time |-> 0 ]

\* What one detectFall call computed in its confirmation stage (the values
\* the call prints as "[Fall Score] Total: s/12, Criteria: c/5" and its
\* rejection verdicts); evaluated is FALSE on a call that skipped the stage.
\* warning_duration is the local of that name, 0 on a call that was not in
\* WARNING when it reached the stage; posture_score and posture_count are
\* what criterion 3 added to the score and to the count.
NoScore ==
  [ evaluated |-> FALSE, criteria_score |-> 0, criteria_count |-> 0,
    likely_jumping |-> FALSE, likely_bowing |-> FALSE, fall_confirmed |-> FALSE,
    warning_duration |-> 0, posture_score |-> 0, posture_count |-> 0 ]

\* ------------------------------------------------------------------------
\* Derived metrics
\* ------------------------------------------------------------------------
\* delta_time of detectFall in milliseconds: (current_time -
\* last_sample_time), replaced by 0.01 s when it is not positive
DeltaTimeMs(f, current_time) ==
  LET d == U32Sub(current_time, f.last_sample_time)
  IN IF d <= 0 THEN 10 ELSE d

\* calculateJerk: |acceleration - previous acceleration| / delta_time
calculateJerk(f, accel_x, accel_y, accel_z, delta_ms) ==
  LET dx == accel_x - f.prev_accel_x
      dy == accel_y - f.prev_accel_y
      dz == accel_z - f.prev_accel_z
  IN (ISqrt(dx * dx + dy * dy + dz * dz) * 1000) \div delta_ms

\* calculateSVM: |acceleration| / GRAVITY, in centi-g
calculateSVM(accel_x, accel_y, accel_z) ==
  (ISqrt(accel_x * accel_x + accel_y * accel_y + accel_z * accel_z) * 10000) \div 981

\* calculateAngularVelocity
calculateAngularVelocity(gyro_x, gyro_y, gyro_z) ==
  ISqrt(gyro_x * gyro_x + gyro_y * gyro_y + gyro_z * gyro_z)

\* ------------------------------------------------------------------------
\* detectFall, stage 2: impact / free-fall detection
\* ------------------------------------------------------------------------
\* variant: the latch is dropped while the sequence window is still open
FreefallPhase_DroppedEarly(f, svm, current_time) ==
  LET free_fall == svm < cfg.SVM_THRESHOLD_LOW
      a == IF free_fall /\ ~f.detected_freefall
           THEN [f EXCEPT !.detected_freefall = TRUE, !.freefall_time = current_time]
           ELSE f
  IN IF a.detected_freefall
        /\ U32Sub(current_time, a.freefall_time) < FALL_SEQUENCE_WINDOW
     THEN [a EXCEPT !.detected_freefall = FALSE]
     ELSE a

\* free-fall phase: latch it, then drop it once the sequence window is over
FreefallPhase(f, svm, current_time) ==
  LET free_fall == svm < cfg.SVM_THRESHOLD_LOW
      a == IF free_fall /\ ~f.detected_freefall
           THEN [f EXCEPT !.detected_freefall = TRUE, !.freefall_time = current_time]
           ELSE f
  IN IF a.detected_freefall
        /\ U32Sub(current_time, a.freefall_time) > FALL_SEQUENCE_WINDOW
     THEN [a EXCEPT !.detected_freefall = FALSE]
     ELSE a

\* impact phase: latch the impact, count it (twice after a free fall), open
\* a warning from NORMAL, then drop the latch once the window is over
ImpactPhase(f, svm, jerk_mag, current_time) ==
  LET high_impact == svm > cfg.SVM_THRESHOLD_HIGH
      high_jerk == jerk_mag > cfg.JERK_THRESHOLD_HIGH
      a == IF (high_impact \/ high_jerk) /\ ~f.detected_impact
           THEN LET c == IF f.detected_freefall
                            /\ U32Sub(current_time, f.freefall_time) < FALL_SEQUENCE_WINDOW
                         THEN U8(f.impact_counter + 2)
                         ELSE U8(f.impact_counter + 1)
                    b == [f EXCEPT !.detected_impact = TRUE,
                                   !.impact_time = current_time,
                                   !.impact_counter = c]
                IN IF b.current_state = NORMAL
                   THEN [b EXCEPT !.current_state = WARNING,
                                  !.warning_start_time = current_time]
                   ELSE b
           ELSE f
  IN IF a.detected_impact
        /\ U32Sub(current_time, a.impact_time) > FALL_SEQUENCE_WINDOW
     THEN [a EXCEPT !.detected_impact = FALSE]
     ELSE a

\* "if (warning_start_time == 0) warning_start_time = current_time"
StampWarningStart(f, current_time) ==
  IF f.warning_start_time = 0
  THEN [f EXCEPT !.warning_start_time = current_time]
  ELSE f

\* additional impact detection: the if / else-if chain on very_high_impact,
\* medium_jerk || svm > WARNING, low_jerk && WARNING, else decay
WarningCounters(f, svm, jerk_mag, current_time) ==
  LET very_high_impact == svm > cfg.SVM_THRESHOLD_IMPACT_PEAK
      medium_jerk == jerk_mag > cfg.JERK_THRESHOLD_MEDIUM
      low_jerk == jerk_mag > cfg.JERK_THRESHOLD_LOW
  IN IF very_high_impact THEN
       StampWarningStart([f EXCEPT !.impact_counter = U8(@ + 2),
                                   !.current_state = WARNING], current_time)
     ELSE IF medium_jerk \/ svm > cfg.SVM_THRESHOLD_WARNING THEN
       LET a == [f EXCEPT !.warning_counter = U8(@ + 1)]
       IN IF a.warning_counter >= cfg.WARNING_COUNT_THRESHOLD
          THEN StampWarningStart([a EXCEPT !.current_state = WARNING], current_time)
          ELSE a
     ELSE IF low_jerk /\ f.current_state = WARNING THEN
       [f EXCEPT !.warning_counter = U8(@ + 1)]
     ELSE
       LET a == [f EXCEPT !.impact_counter = IF @ > 0 THEN @ - 1 ELSE @,
                          !.warning_counter = IF @ > 0 THEN @ - 1 ELSE @]
       IN IF a.current_state = WARNING /\ a.impact_counter = 0 /\ a.warning_counter = 0
          THEN [a EXCEPT !.current_state = NORMAL, !.warning_start_time = 0]
          ELSE a

\* ------------------------------------------------------------------------
\* detectFall, stage 3: rotation / tumbling detection
\* ------------------------------------------------------------------------
SustainedRotation(angular_vel) == angular_vel > cfg.GYRO_THRESHOLD_SUSTAINED

HighRotation(angular_vel) == angular_vel > cfg.GYRO_THRESHOLD_COMBINED

RotationPhase(f, angular_vel) ==
  IF SustainedRotation(angular_vel)
  THEN [f EXCEPT !.gyro_sustained_counter = U8(@ + 1), !.detected_rotation = TRUE]
  ELSE [f EXCEPT !.gyro_sustained_counter = IF @ > 0 THEN @ - 1 ELSE @]

\* ------------------------------------------------------------------------
\* detectFall, stage 4: posture angle verification
\* ------------------------------------------------------------------------
\* variant: the angles are judged against the baseline whether or not the
\* detector is calibrated
Posture_Uncalibrated(f, accel_x, accel_y, accel_z, delta_ms) ==
  LET pitch == Atan2Deg(accel_y, accel_z)
      roll == Atan2Deg(accel_x, accel_z)
      pitch_change == Abs(pitch - f.baseline_pitch)
      roll_change == Abs(roll - f.baseline_roll)
  IN [ computed |-> TRUE, pitch |-> pitch, roll |-> roll,
       posture_changed |-> (pitch_change > cfg.PITCH_THRESHOLD)
                           \/ (roll_change > cfg.ROLL_THRESHOLD),
       rapid_posture_change |-> (pitch_change > cfg.POSTURE_CHANGE_RAPID)
                                \/ (roll_change > cfg.POSTURE_CHANGE_RAPID) ]

\* pitch, roll and the two posture verdicts; all FALSE and the angles left
\* alone while the detector is not calibrated
Posture(f, accel_x, accel_y, accel_z, delta_ms) ==
  IF f.is_calibrated THEN
    LET pitch == Atan2Deg(accel_y, accel_z)
        roll == Atan2Deg(accel_x, accel_z)
        pitch_change == Abs(pitch - f.baseline_pitch)
        roll_change == Abs(roll - f.baseline_roll)
        \* rate = |angle - prev| / (delta_time + 0.001), compared as
        \* |angle - prev| * 1000 > limit * (delta_ms + 1)
        pitch_fast == Abs(pitch - prev_pitch) * 1000 > PITCH_RATE_RAPID * (delta_ms + 1)
        roll_fast == Abs(roll - prev_roll) * 1000 > ROLL_RATE_RAPID * (delta_ms + 1)
    IN [ computed |-> TRUE, pitch |-> pitch, roll |-> roll,
         posture_changed |-> (pitch_change > cfg.PITCH_THRESHOLD)
                             \/ (roll_change > cfg.ROLL_THRESHOLD),
         rapid_posture_change |-> (pitch_change > cfg.POSTURE_CHANGE_RAPID)
                                  \/ (roll_change > cfg.POSTURE_CHANGE_RAPID)
                                  \/ pitch_fast \/ roll_fast ]
  ELSE [ computed |-> FALSE, pitch |-> prev_pitch, roll |-> prev_roll,
         posture_changed |-> FALSE, rapid_posture_change |-> FALSE ]

\* ------------------------------------------------------------------------
\* detectFall, stage 5: fall confirmation
\* ------------------------------------------------------------------------
\* bowing: a warning older than BOWING_REJECTION_TIME with no rotation
\* counted, no free fall latched and no rapid posture change; only a
\* calibrated detector gives the verdict
LikelyBowing(f, warning_duration, rapid_posture_change) ==
  /\ f.is_calibrated
  /\ warning_duration > BOWING_REJECTION_TIME
  /\ f.gyro_sustained_counter = 0
  /\ ~f.detected_freefall
  /\ ~rapid_posture_change

\* the reset the bowing verdict performs before it returns
RejectBowing(f) ==
  [f EXCEPT !.current_state = NORMAL, !.impact_counter = 0, !.warning_counter = 0,
            !.gyro_sustained_counter = 0, !.warning_start_time = 0,
            !.detected_freefall = FALSE, !.detected_impact = FALSE,
            !.detected_rotation = FALSE]

\* jumping: a free fall latched without any rotation
LikelyJumping(f) ==
  f.detected_freefall /\ ~f.detected_rotation /\ f.gyro_sustained_counter = 0

\* the five weighted criteria; each term is <<score, count>>
ImpactCriterion(f) ==
  IF f.impact_counter >= cfg.IMPACT_COUNT_THRESHOLD
  THEN IF f.detected_freefall
          /\ U32Sub(f.impact_time, f.freefall_time) < FALL_SEQUENCE_WINDOW
       THEN <<3, 1>> ELSE <<1, 1>>
  ELSE <<0, 0>>

RotationCriterion(f, angular_vel) ==
  IF f.gyro_sustained_counter >= cfg.GYRO_SUSTAINED_COUNT THEN <<3, 1>>
  ELSE IF HighRotation(angular_vel) THEN <<2, 1>>
  ELSE <<0, 0>>

PostureCriterion(posture) ==
  IF posture.rapid_posture_change THEN <<3, 1>>
  ELSE IF posture.posture_changed THEN <<2, 1>>
  ELSE <<0, 0>>

JerkCriterion(jerk_mag) ==
  IF jerk_mag > cfg.JERK_THRESHOLD_HIGH THEN <<1, 1>> ELSE <<0, 0>>

SequenceCriterion(f) ==
  IF f.detected_freefall /\ f.detected_impact /\ f.detected_rotation
  THEN <<2, 1>> ELSE <<0, 0>>

\* variant: two criteria are enough for the lower cutoff
ConfirmDecision_TwoCriteria(criteria_score, criteria_count) ==
  (criteria_score >= 6) \/ (criteria_score >= 4 /\ criteria_count >= 2)

\* "score >= 6, or score >= 4 with at least 3 criteria"
ConfirmDecision(criteria_score, criteria_count) ==
  (criteria_score >= 6) \/ (criteria_score >= 4 /\ criteria_count >= 3)

\* variant: the jumping verdict is not consulted
ConfirmAllowed_Unchecked(likely_jumping) == TRUE

\* the confirmation is taken only when jumping is not suspected
ConfirmAllowed(likely_jumping) == ~likely_jumping

\* variant: the sustained-rotation counter survives the confirmation
ConfirmFall_KeepsRotation(f, current_time) ==
  [f EXCEPT !.current_state = FALL_DETECTED,
            !.state_change_time = current_time,
            !.last_fall_time = current_time,
            !.impact_counter = 0, !.warning_counter = 0,
            !.detected_freefall = FALSE, !.detected_impact = FALSE,
            !.detected_rotation = FALSE]

\* what a confirmation writes
ConfirmFall(f, current_time) ==
  [f EXCEPT !.current_state = FALL_DETECTED,
            !.state_change_time = current_time,
            !.last_fall_time = current_time,
            !.impact_counter = 0, !.warning_counter = 0,
            !.gyro_sustained_counter = 0,
            !.detected_freefall = FALSE, !.detected_impact = FALSE,
            !.detected_rotation = FALSE]

\* variant: the timeout waits for BOWING_REJECTION_TIME
TimeoutDue_Late(warning_duration, criteria_score) ==
  warning_duration > BOWING_REJECTION_TIME /\ criteria_score < 4

\* "warning_duration > FALL_SEQUENCE_WINDOW && criteria_score < 4"
TimeoutDue(warning_duration, criteria_score) ==
  warning_duration > FALL_SEQUENCE_WINDOW /\ criteria_score < 4

WarningTimeout(f) ==
  [f EXCEPT !.current_state = NORMAL, !.impact_counter = 0, !.warning_counter = 0,
            !.gyro_sustained_counter = 0, !.warning_start_time = 0,
            !.detected_freefall = FALSE, !.detected_impact = FALSE,
            !.detected_rotation = FALSE]

\* Stage 5 as a whole. The result carries the detector, what the stage
\* computed, and whether detectFall returned from inside it.
Confirmation(f, jerk_mag, angular_vel, posture, current_time) ==
  IF f.current_state # WARNING
  THEN [det |-> f, sc |-> NoScore, returned |-> FALSE]
  ELSE
    LET warning_duration == U32Sub(current_time, f.warning_start_time)
    IN IF LikelyBowing(f, warning_duration, posture.rapid_posture_change)
       THEN [det |-> RejectBowing(f),
             sc |-> [NoScore EXCEPT !.likely_bowing = TRUE,
                                    !.warning_duration = warning_duration],
             returned |-> TRUE]
       ELSE
         LET likely_jumping == LikelyJumping(f)
             c1 == ImpactCriterion(f)
             c2 == RotationCriterion(f, angular_vel)
             c3 == PostureCriterion(posture)
             c4 == JerkCriterion(jerk_mag)
             c5 == SequenceCriterion(f)
             criteria_score == c1[1] + c2[1] + c3[1] + c4[1] + c5[1]
             criteria_count == c1[2] + c2[2] + c3[2] + c4[2] + c5[2]
             confirm == ConfirmDecision(criteria_score, criteria_count)
                        /\ ConfirmAllowed(likely_jumping)
             g == IF ConfirmDecision(criteria_score, criteria_count)
                  THEN IF ConfirmAllowed(likely_jumping)
                       THEN ConfirmFall(f, current_time)
                       ELSE f
                  ELSE IF TimeoutDue(warning_duration, criteria_score)
                       THEN WarningTimeout(f)
                       ELSE f
         IN [det |-> g,
             sc |-> [evaluated |-> TRUE, criteria_score |-> criteria_score,
                     criteria_count |-> criteria_count,
                     likely_jumping |-> likely_jumping, likely_bowing |-> FALSE,
                     fall_confirmed |-> confirm,
                     warning_duration |-> warning_duration,
                     posture_score |-> c3[1], posture_count |-> c3[2]],
             returned |-> FALSE]

\* ------------------------------------------------------------------------
\* checkPostFallMovement
\* ------------------------------------------------------------------------
WindowIndices == 0..(IMMOBILITY_SAMPLE_COUNT - 1)

RECURSIVE SumTo(_, _)
SumTo(a, i) == IF i < 0 THEN 0 ELSE a[i] + SumTo(a, i - 1)

\* sum over the window of (10*a[i] - S)^2, S the window's sum: 1000 times
\* the variance the code computes
RECURSIVE SquaresTo(_, _, _)
SquaresTo(a, S, i) ==
  IF i < 0 THEN 0
  ELSE SatAdd(SatSq(IMMOBILITY_SAMPLE_COUNT * a[i] - S), SquaresTo(a, S, i - 1))

Variance1000(a) ==
  SquaresTo(a, SumTo(a, IMMOBILITY_SAMPLE_COUNT - 1), IMMOBILITY_SAMPLE_COUNT - 1)

\* svm_max - svm_min, svm_min starting at 999.0 and svm_max at 0.0
SvmRange(a) ==
  LET lows == {a[i] : i \in WindowIndices} \cup {99900}
      highs == {a[i] : i \in WindowIndices} \cup {0}
      svm_min == CHOOSE m \in lows : \A x \in lows : m <= x
      svm_max == CHOOSE m \in highs : \A x \in highs : m >= x
  IN svm_max - svm_min

\* number of the four immobility criteria the window meets
ImmobilityCriteria(buf) ==
  LET va == Variance1000(buf.accel_samples)
      vg == Variance1000(buf.gyro_samples)
      low_accel_variance == va < IMMOBILITY_ACCEL_VARIANCE_THRESHOLD * 1000
      low_accel_stddev == va < IMMOBILITY_ACCEL_STDDEV_THRESHOLD_SQ * 1000
      low_gyro_variance == vg < IMMOBILITY_GYRO_VARIANCE_THRESHOLD * 1000
      low_svm_range == SvmRange(buf.svm_samples) < IMMOBILITY_SVM_RANGE_THRESHOLD
  IN (IF low_accel_variance THEN 1 ELSE 0) + (IF low_accel_stddev THEN 1 ELSE 0)
     + (IF low_gyro_variance THEN 1 ELSE 0) + (IF low_svm_range THEN 1 ELSE 0)

\* "latest_event.is_immobile = (immobility_criteria >= 3)"
ImmobileVerdict(buf) == ImmobilityCriteria(buf) >= 3

\* "if (current_time - last_immobility_check_time < INTERVAL) return"
SamplingDue(f, current_time) ==
  ~(U32Sub(current_time, f.last_immobility_check_time) < IMMOBILITY_SAMPLING_INTERVAL)

\* variant: the analysis runs on a window that is not full yet
WindowNotFull_Unchecked(buf) == FALSE

\* "if (sample_count < IMMOBILITY_SAMPLE_COUNT) { is_immobile = false; return; }"
WindowNotFull(buf) == buf.sample_count < IMMOBILITY_SAMPLE_COUNT

\* the write into the ring buffer with the index and count updates
PushSample(buf, svm, angular_vel) ==
  LET i == buf.sample_index
      next == IF i + 1 >= IMMOBILITY_SAMPLE_COUNT THEN 0 ELSE i + 1
  IN [buf EXCEPT !.accel_samples[i] = svm,
                 !.gyro_samples[i] = angular_vel,
                 !.svm_samples[i] = svm,
                 !.sample_index = next,
                 !.sample_count = IF @ < IMMOBILITY_SAMPLE_COUNT THEN @ + 1 ELSE @]

checkPostFallMovement(f, svm, angular_vel, current_time) ==
  IF ~SamplingDue(f, current_time) THEN f
  ELSE
    LET buf == PushSample(f.immobility_buffer, svm, angular_vel)
        a == [f EXCEPT !.last_immobility_check_time = current_time,
                       !.immobility_buffer = buf]
    IN IF WindowNotFull(buf)
       THEN [a EXCEPT !.latest_event.is_immobile = FALSE]
       ELSE
         LET va == Variance1000(buf.accel_samples)
             immobile == ImmobileVerdict(buf)
             start == IF immobile
                      THEN (IF a.immobility_start_time = 0 THEN current_time
                            ELSE a.immobility_start_time)
                      ELSE 0
         IN [a EXCEPT !.latest_event.movement_variance = va \div 1000,
                      !.latest_event.movement_stddev = ISqrt(va \div 1000),
                      !.latest_event.is_immobile = immobile,
                      !.immobility_start_time = start,
                      !.latest_event.immobile_duration =
                          IF immobile THEN U32Sub(current_time, start) ELSE 0]

\* ------------------------------------------------------------------------
\* detectFall, stages 6 to 8
\* ------------------------------------------------------------------------
\* variant: monitoring starts without the grace period
GraceElapsed_None(f, current_time) == TRUE

\* "current_time - state_change_time > FALL_CONFIRMATION_WINDOW"
GraceElapsed(f, current_time) ==
  U32Sub(current_time, f.state_change_time) > FALL_CONFIRMATION_WINDOW

\* variant: the verdict is taken as soon as the fall is confirmed, without
\* the grace period and without waiting for a full window
PostFallMonitoring_Ungated(f, svm, angular_vel, current_time) ==
  IF f.current_state = FALL_DETECTED
  THEN LET a == checkPostFallMovement(f, svm, angular_vel, current_time)
       IN IF a.latest_event.is_immobile
          THEN [a EXCEPT !.current_state = DANGEROUS]
          ELSE [a EXCEPT !.current_state = RECOVERY]
  ELSE f

PostFallMonitoring(f, svm, angular_vel, current_time) ==
  IF f.current_state = FALL_DETECTED /\ GraceElapsed(f, current_time)
  THEN LET a == checkPostFallMovement(f, svm, angular_vel, current_time)
       IN IF a.immobility_buffer.sample_count >= IMMOBILITY_SAMPLE_COUNT
          THEN IF a.latest_event.is_immobile
               THEN [a EXCEPT !.current_state = DANGEROUS]
               ELSE [a EXCEPT !.current_state = RECOVERY]
          ELSE a
  ELSE f

DangerousMonitoring(f, svm, angular_vel, current_time) ==
  IF f.current_state = DANGEROUS
  THEN LET a == checkPostFallMovement(f, svm, angular_vel, current_time)
       IN IF ~a.latest_event.is_immobile
          THEN [a EXCEPT !.current_state = RECOVERY]
          ELSE a
  ELSE f

\* "current_time - last_fall_time > RECOVERY_TIME_WINDOW"
CooldownElapsed(f, current_time) ==
  U32Sub(current_time, f.last_fall_time) > RECOVERY_TIME_WINDOW

RecoveryPeriod(f, current_time) ==
  IF f.current_state = RECOVERY /\ CooldownElapsed(f, current_time)
  THEN [f EXCEPT !.current_state = NORMAL,
                 !.immobility_buffer.sample_count = 0,
                 !.immobility_buffer.sample_index = 0]
  ELSE f

\* ------------------------------------------------------------------------
\* detectFall
\* ------------------------------------------------------------------------
\* "Update fall event data" at the end of the call
UpdateEvent(f, jerk_mag, svm, angular_vel, fall_confirmed, current_time) ==
  [f EXCEPT !.latest_event.state = f.current_state,
            !.latest_event.timestamp = current_time,
            !.latest_event.jerk_magnitude = jerk_mag,
            !.latest_event.svm_value = svm,
            !.latest_event.angular_velocity = angular_vel,
            !.latest_event.confirmed = fall_confirmed]

\* path records the values current_state took during the call, in order:
\* on entry, after the impact phase, after the additional impact detection,
\* after the confirmation stage and after stages 6, 7 and 8 (the last three
\* are missing when the call returned from the bowing rejection).
\*
\* One call of detectFall on the reading sd, dt milliseconds after the
\* previous call.
detectFall(sd, dt) ==
  \E current_time \in {now + dt} :
  \E delta_ms \in {DeltaTimeMs(fd, current_time)} :
  \E jerk_mag \in {calculateJerk(fd, sd.accelX, sd.accelY, sd.accelZ, delta_ms)} :
  \E svm \in {calculateSVM(sd.accelX, sd.accelY, sd.accelZ)} :
  \E angular_vel \in {calculateAngularVelocity(sd.gyroX, sd.gyroY, sd.gyroZ)} :
  \E f0 \in {[fd EXCEPT !.last_sample_time = current_time,
                        !.prev_accel_x = sd.accelX,
                        !.prev_accel_y = sd.accelY,
                        !.prev_accel_z = sd.accelZ,
                        !.prev_svm = svm]} :
  \E f1 \in {FreefallPhase(f0, svm, current_time)} :
  \E f2 \in {ImpactPhase(f1, svm, jerk_mag, current_time)} :
  \E f3 \in {WarningCounters(f2, svm, jerk_mag, current_time)} :
  \E f4 \in {RotationPhase(f3, angular_vel)} :
  \E posture \in {Posture(f4, sd.accelX, sd.accelY, sd.accelZ, delta_ms)} :
  \E f5 \in {IF posture.computed
              THEN [f4 EXCEPT !.latest_event.pitch_angle = posture.pitch,
                              !.latest_event.roll_angle = posture.roll]
              ELSE f4} :
  \E r \in {Confirmation(f5, jerk_mag, angular_vel, posture, current_time)} :
  \E f6 \in {PostFallMonitoring(r.det, svm, angular_vel, current_time)} :
  \E f7 \in {DangerousMonitoring(f6, svm, angular_vel, current_time)} :
  \E f8 \in {RecoveryPeriod(f7, current_time)} :
     /\ now' = current_time
     /\ prev_pitch' = posture.pitch
     /\ prev_roll' = posture.roll
     /\ scored' = r.sc
     /\ path' = IF r.returned
                THEN <<fd.current_state, f2.current_state, f3.current_state,
                       r.det.current_state>>
                ELSE <<fd.current_state, f2.current_state, f3.current_state,
                       r.det.current_state, f6.current_state, f7.current_state,
                       f8.current_state>>
     /\ fd' = IF r.returned
              THEN r.det
              ELSE UpdateEvent(f8, jerk_mag, svm, angular_vel,
                               r.sc.fall_confirmed, current_time)
     /\ UNCHANGED cfg

\* a call of detectFall made on its own, outside loop()
DetectFall(sd, dt) ==
  /\ detectFall(sd, dt)
  /\ UNCHANGED linkVars

\* ------------------------------------------------------------------------
\* Inputs
\* ------------------------------------------------------------------------
Reading(a, g) ==
  [accelX |-> a[1], accelY |-> a[2], accelZ |-> a[3],
   gyroX |-> g[1], gyroY |-> g[2], gyroZ |-> g[3]]

\* accelerations (m/s^2)
AtRest == <<0, 0, 10>>
FreeFall == <<0, 0, 6>>
WarningBand == <<0, 0, 15>>
PeakUpright == <<0, 0, 25>>
Lying == <<0, 10, 0>>
PeakLying == <<0, 25, 0>>
Leaning == <<0, 7, 7>>
\* a small movement, inside every threshold of the detector
Stirring == <<0, 0, 12>>
\* spikes strong enough to cross the jerk thresholds at a 100 ms period
Spike == <<0, 0, 46000>>
SpikeLeaning == <<0, 32527, 32527>>

\* rotation rates (deg/s): none; above every sustained threshold; above
\* every combined threshold
NoRotation == <<0, 0, 0>>
Turning == <<150, 0, 0>>
Tumbling == <<0, 250, 0>>

Readings ==
  { Reading(AtRest, NoRotation), Reading(AtRest, Turning),
    Reading(FreeFall, NoRotation), Reading(WarningBand, NoRotation),
    Reading(PeakUpright, NoRotation), Reading(PeakLying, NoRotation),
    Reading(PeakLying, Tumbling), Reading(Lying, NoRotation),
    Reading(Leaning, NoRotation), Reading(Spike, NoRotation),
    Reading(SpikeLeaning, NoRotation) }

\* time between two calls: a fast sampling loop and the loop's
\* READ_INTERVAL_MS
DtSet == {100, 500}

CalibrationAngles == {0}

\* ------------------------------------------------------------------------
\* Actions
\* ------------------------------------------------------------------------
\* setSensitivityProfile(profile), called by setup() before calibration
SetSensitivityProfile(profile) ==
  /\ now = 0
  /\ cfg = DefaultConfig
  /\ ~fd.is_calibrated
  /\ cfg' = ProfileConfig(profile)
  /\ UNCHANGED <<fd, now, ticks, prev_pitch, prev_roll, scored, path, script>>
  /\ UNCHANGED linkVars

\* calibrate(pitch, roll), called by setup() before the first loop()
Calibrate(pitch, roll) ==
  /\ now = 0
  /\ ~fd.is_calibrated
  /\ fd' = [fd EXCEPT !.baseline_pitch = pitch, !.baseline_roll = roll,
                      !.is_calibrated = TRUE]
  /\ UNCHANGED <<cfg, now, ticks, prev_pitch, prev_roll, scored, path, script>>
  /\ UNCHANGED linkVars

\* one iteration of loop(): read the sensor, run detectFall
Tick ==
  \E sd \in Readings, dt \in DtSet :
    /\ ticks < MaxTicks
    /\ ticks' = ticks + 1
    /\ DetectFall(sd, dt)
    /\ UNCHANGED script

\* the device's LoRaComm object as its constructor leaves it
\* the readings loop() collects for a realtime packet: temperatures in
\* tenths of a degree (with a flag for a NaN reading), sound levels in
\* tenths of a dB, the two status codes and the fall state as numbers
InitVitals ==
  [ bpm |-> 0, currentTemp |-> 0, bodyNan |-> FALSE, ambientTemp |-> 0,
    ambientNan |-> FALSE, soundLevel |-> 0, maxNoisedB |-> 0,
    hrStatus |-> 0, tempStatus |-> 0, fallState |-> 0 ]

\* the PQRST features of the ECG monitor; a heart rate, the 50 compressed
\* samples and the features are what loop() collects for an ECG packet
InitPQRST ==
  [ timestamp |-> 0, p_amp |-> 0, q_amp |-> 0, r_amp |-> 0, s_amp |-> 0,
    t_amp |-> 0, qrs_width |-> 0, qt_interval |-> 0 ]

InitEcg ==
  [ bpm |-> 0, compressedECG |-> [i \in 1..50 |-> 0], pqrstValid |-> FALSE,
    lastPQRST |-> InitPQRST ]

\* a 32-bit value (a uint32_t, or the bits of a float) as its low and high
\* 16-bit halves
Word32(hi, lo) == [ hi |-> hi, lo |-> lo ]

\* what loop() collects for a fall event packet
InitFall ==
  [ timestamp |-> Word32(0, 0), jerk_magnitude |-> Word32(0, 0),
    svm_value |-> Word32(0, 0), angular_velocity |-> Word32(0, 0),
    pitch_angle |-> Word32(0, 0), roll_angle |-> Word32(0, 0), bpm |-> 0,
    currentTemp |-> 0, bodyNan |-> FALSE, accelX |-> Word32(0, 0),
    accelY |-> Word32(0, 0), accelZ |-> Word32(0, 0),
    movement_variance |-> Word32(0, 0) ]

\* the timing globals of loop(): the millis() value of the latest iteration
\* and the two last-transmission times; loops counts the iterations, and
\* for each periodic packet, tried and ok tell whether the latest
\* iteration attempted it and succeeded, failTime is the time of the latest
\* failed attempt (-1 if none)
InitSched ==
  [ currentTime |-> 0, lastRealtimeTxTime |-> 0, lastECGTxTime |-> 0,
    loops |-> 0, realtimeTried |-> FALSE, realtimeOk |-> FALSE,
    realtimeFailTime |-> -1, ecgTried |-> FALSE, ecgOk |-> FALSE,
    ecgFailTime |-> -1 ]

\* the globals by which loop() reports the fall state: previousFallState,
\* stateChangeNotified and fallEventTriggered. For the latest iteration,
\* alertSent is the payload of the immediate realtime packet and
\* periodicSent that of the periodic one if it was transmitted (<< >>
\* otherwise), eventTried and eventOk tell whether the fall event packet
\* was attempted and transmitted. eventFailed tells that the latest
\* attempt of a fall event packet failed; fallPending that a fall was
\* confirmed and no packet carrying it has been transmitted since;
\* sentSince that a packet not carrying it has been transmitted since.
InitNotify ==
  [ previousFallState |-> NORMAL, stateChangeNotified |-> FALSE,
    fallEventTriggered |-> FALSE, alertSent |-> << >>,
    periodicSent |-> << >>, eventTried |-> FALSE, eventOk |-> FALSE,
    eventFailed |-> FALSE, fallPending |-> FALSE, sentSince |-> FALSE ]

\* the device's LoRaComm object as its constructor leaves it, the readings
\* the last packet of each type was built from, the timing of loop() and
\* its fall reporting; halted tells that setup() has entered its endless
\* loop
InitNode ==
  [ initialized |-> FALSE, frameCounter |-> 0, vitals |-> InitVitals,
    ecg |-> InitEcg, fall |-> InitFall, sched |-> InitSched,
    notify |-> InitNotify, halted |-> FALSE ]

\* what the last sendUplink call did: "none" before the first call,
\* "refused" (not initialized), "failed" (radio.transmit reported an
\* error) or "sent"; count is the number of calls that returned true and
\* packet the last packet that was transmitted
InitTx == [ outcome |-> "none", count |-> 0, packet |-> <<>> ]

InitLastPacket ==
  [ type |-> 0, deviceId |-> <<>>, frameCounter |-> 0, heartRate |-> 0,
    temperature |-> 0, noiseLevel |-> 0, fallState |-> 0,
    fallDetected |-> FALSE, noiseAlert |-> FALSE, hrAlert |-> FALSE,
    tempAlert |-> FALSE ]

\* currentTime as its initialiser leaves it (lastSyncMillis is left out)
InitCurrentTime ==
  [ hour |-> 0, minute |-> 0, second |-> 0, year |-> 2025, month |-> 1,
    day |-> 1, valid |-> FALSE ]

\* the relay's globals as their initialisers leave them; booted is FALSE
\* until setup() has run, forwarded counts the frames written to the
\* serial link, lastForwarded is the data of the last one, lastFrame
\* the bytes that were written for it and lastSignal the rssi (dBm) and snr
\* (quarters of a dB) the radio reported for it; serialIn holds the bytes
\* waiting on the serial input; halted tells that setup() has entered its
\* endless loop
InitRelay ==
  [ booted |-> FALSE, packetsReceived |-> 0, packetsSkipped |-> 0,
    lastRxBuffer |-> <<>>, lastRxLength |-> 0, displayAvailable |-> FALSE,
    needsFullRefresh |-> TRUE, lastFrameCounter |-> 0,
    lastPacket |-> InitLastPacket, lastPacketType |-> 0,
    forwarded |-> 0, lastForwarded |-> <<>>, lastFrame |-> <<>>,
    lastSignal |-> <<0, 0>>, currentTime |-> InitCurrentTime,
    serialIn |-> <<>>, halted |-> FALSE ]

\* the serial line and the host's parser at start: line holds the bytes
\* written to the line and not yet consumed, delivered the frames the
\* parser has accepted, skipped the bytes it has discarded; sent lists the
\* packets the relay has forwarded with the signal values it had for them,
\* noise the bursts of other bytes that appeared on the line
InitHost ==
  [ line |-> << >>, delivered |-> << >>, skipped |-> 0, sent |-> << >>,
    noise |-> << >> ]

\* the devices that post to the API and the alert types of a realtime packet
Devices == { "ESP32-001", "ESP32-002" }
AlertTypes == { "heart_rate", "temperature", "fall", "noise" }

\* the API server at start: Date.now() in ms, the sentAlerts map as a set of
\* entries (device, alert type and minute of the key, and the timestamp),
\* the number of requests handled, and for each device and alert type the
\* time sendAlert was last called (-1 if never)
InitBackend ==
  [ now |-> 0, sentAlerts |-> {}, posts |-> 0,
    lastAlert |-> [ d \in Devices |-> [ t \in AlertTypes |-> -1 ] ] ]

Init ==
  /\ fd = InitDetector
  /\ cfg = DefaultConfig
  /\ now = 0
  /\ ticks = 0
  /\ prev_pitch = 0
  /\ prev_roll = 0
  /\ scored = NoScore
  /\ path = <<NORMAL>>
  /\ script = 0
  /\ node = InitNode
  /\ tx = InitTx
  /\ air = <<>>
  /\ relay = InitRelay
  /\ polls = 0
  /\ host = InitHost
  /\ backend = InitBackend
  /\ written = << >>

Next ==
  \/ \E profile \in 0..2 : SetSensitivityProfile(profile)
  \/ \E pitch \in CalibrationAngles, roll \in CalibrationAngles : Calibrate(pitch, roll)
  \/ Tick

Spec == Init /\ [][Next]_vars

\* ------------------------------------------------------------------------
\* Fall episodes: the deployed set-up (sensitive profile, calibrated), the
\* loop at its READ_INTERVAL_MS period, and the readings of a wearer who is
\* still, who stirs, and who falls
\* ------------------------------------------------------------------------
EpisodeReadings ==
  { Reading(AtRest, NoRotation), Reading(Stirring, NoRotation),
    Reading(PeakLying, Tumbling) }

\* delay(READ_INTERVAL_MS) and the 50 ms microphone window of one loop()
EpisodeDt == {550}

EpisodeTick ==
  \E sd \in EpisodeReadings, dt \in EpisodeDt :
    /\ fd.is_calibrated
    /\ cfg # DefaultConfig
    /\ ticks < MaxEpisodeTicks
    /\ ticks' = ticks + 1
    /\ DetectFall(sd, dt)
    /\ UNCHANGED script

NextEpisode ==
  \/ SetSensitivityProfile(2)
  \/ Calibrate(0, 0)
  \/ EpisodeTick

SpecEpisode == Init /\ [][NextEpisode]_vars

\* ------------------------------------------------------------------------
\* Cool-down: the same set-up and readings with detectFall called slightly
\* faster than the loop's period, so that a window filled after a fall is
\* judged before RECOVERY_TIME_WINDOW has elapsed and the detector spends
\* whole calls in RECOVERY
\* ------------------------------------------------------------------------
CooldownDt == {450}

CooldownTick ==
  \E sd \in EpisodeReadings, dt \in CooldownDt :
    /\ fd.is_calibrated
    /\ cfg # DefaultConfig
    /\ ticks < MaxCooldownTicks
    /\ ticks' = ticks + 1
    /\ DetectFall(sd, dt)
    /\ UNCHANGED script

NextCooldown ==
  \/ SetSensitivityProfile(2)
  \/ Calibrate(0, 0)
  \/ CooldownTick

SpecCooldown == Init /\ [][NextCooldown]_vars

\* ------------------------------------------------------------------------
\* Relapse: a wearer who falls on the first sample, gets up and later moves
\* briskly, at the loop's period; script counts the samples played so far
\* ------------------------------------------------------------------------
RelapseDt == {550}

FallReadings == { Reading(PeakLying, Tumbling) }

GettingUpReadings == { Reading(AtRest, NoRotation), Reading(Stirring, NoRotation) }

BriskReadings == { Reading(AtRest, NoRotation), Reading(WarningBand, NoRotation) }

RelapseLength == 1 + GettingUpSamples + BriskSamples

RelapseReadings ==
  IF script = 0 THEN FallReadings
  ELSE IF script <= GettingUpSamples THEN GettingUpReadings
  ELSE BriskReadings

RelapseTick ==
  \E sd \in RelapseReadings, dt \in RelapseDt :
    /\ fd.is_calibrated
    /\ cfg # DefaultConfig
    /\ script < RelapseLength
    /\ ticks' = ticks + 1
    /\ script' = script + 1
    /\ DetectFall(sd, dt)

NextRelapse ==
  \/ SetSensitivityProfile(2)
  \/ Calibrate(0, 0)
  \/ RelapseTick

SpecRelapse == Init /\ [][NextRelapse]_vars

\* ------------------------------------------------------------------------
\* Bowing: a calibrated detector fed a stream without rotation, without
\* free fall and without rapid posture change, at sampling periods from
\* 100 ms up to a gap longer than BOWING_REJECTION_TIME
\* ------------------------------------------------------------------------
BowingReadings ==
  { Reading(AtRest, NoRotation), Reading(WarningBand, NoRotation),
    Reading(PeakUpright, NoRotation), Reading(Leaning, NoRotation),
    Reading(SpikeLeaning, NoRotation) }

BowingDt == {100, 500, 1600}

\* the stream's premises on one reading: no free fall, and a posture that
\* stage 4 does not judge rapid
BowingPremise(sd, dt) ==
  /\ calculateAngularVelocity(sd.gyroX, sd.gyroY, sd.gyroZ) = 0
  /\ ~(calculateSVM(sd.accelX, sd.accelY, sd.accelZ) < cfg.SVM_THRESHOLD_LOW)
  /\ ~Posture(fd, sd.accelX, sd.accelY, sd.accelZ,
              DeltaTimeMs(fd, now + dt)).rapid_posture_change

BowingTick ==
  \E sd \in BowingReadings, dt \in BowingDt :
    /\ fd.is_calibrated
    /\ cfg # DefaultConfig
    /\ ticks < MaxBowTicks
    /\ BowingPremise(sd, dt)
    /\ ticks' = ticks + 1
    /\ DetectFall(sd, dt)
    /\ UNCHANGED script

NextBowing ==
  \/ SetSensitivityProfile(2)
  \/ Calibrate(0, 0)
  \/ BowingTick

SpecBowing == Init /\ [][NextBowing]_vars

\* ------------------------------------------------------------------------
\* Fall sequence: a detector in any set-up (default thresholds or profile 1
\* or 2, calibrated or not) sampled every 100 ms is fed free fall, then an
\* impact spike on which rotation begins, then rotation; script counts the
\* samples of the sequence played so far
\* ------------------------------------------------------------------------
SequenceDt == {100}

FreeFallReadings ==
  { Reading(FreeFall, NoRotation), Reading(FreeFall, Turning) }

ImpactReadings ==
  { Reading(a, g) : a \in {PeakUpright, PeakLying}, g \in {Turning, Tumbling} }

RotationReadings ==
  { Reading(a, g) : a \in {AtRest, Lying}, g \in {Turning, Tumbling} }

SequenceLength == FreeFallSamples + RotationSamples

SequenceReadings ==
  IF script < FreeFallSamples THEN FreeFallReadings
  ELSE IF script = FreeFallSamples THEN ImpactReadings
  ELSE RotationReadings

SequenceTick ==
  \E sd \in SequenceReadings, dt \in SequenceDt :
    /\ script < SequenceLength
    /\ ticks' = ticks + 1
    /\ script' = script + 1
    /\ DetectFall(sd, dt)

NextSequence ==
  \/ \E profile \in 1..2 : SetSensitivityProfile(profile)
  \/ Calibrate(0, 0)
  \/ SequenceTick

SpecSequence == Init /\ [][NextSequence]_vars

\* ------------------------------------------------------------------------
\* Radio link, sender side: LoRaComm
\* ------------------------------------------------------------------------
\* range of uint8_t and of the uint16_t frameCounter
ByteModulus == 256
FrameCounterModulus == 65536

\* the characters of DEVICE_ID, "ESP32-001"
DEVICE_ID == <<69, 83, 80, 51, 50, 45, 48, 48, 49>>

\* "memset(packet, 0, 10); strncpy((char*)packet, id, 10)": the first ten
\* characters of id, or all of them and zero bytes up to ten
DeviceIdField(id) == [ i \in 1..10 |-> IF i <= Len(id) THEN id[i] ELSE 0 ]

\* the device id bytes of every packet
DeviceIdBytes == DeviceIdField(DEVICE_ID)

\* variant: the high byte is written first
EncodeFrameCounter_HighFirst(fc) ==
  << (fc \div ByteModulus) % ByteModulus, fc % ByteModulus >>

\* "packet[packetLen++] = frameCounter & 0xFF; ... (frameCounter >> 8) & 0xFF"
EncodeFrameCounter(fc) ==
  << fc % ByteModulus, (fc \div ByteModulus) % ByteModulus >>

\* the packet sendUplink builds: device id, frame counter, port, payload
BuildPacket(fc, port, data) ==
  DeviceIdBytes \o EncodeFrameCounter(fc) \o <<port>> \o data

\* variant: the counter advances by two
NextFrameCounter_Twice(fc) ==
  (fc + 2) % FrameCounterModulus

\* "frameCounter++" on a uint16_t
NextFrameCounter(fc) ==
  (fc + 1) % FrameCounterModulus

\* LoRaComm::begin: radio.begin succeeds or fails
Begin(ok) ==
  /\ ~node.initialized
  /\ node' = [node EXCEPT !.initialized = ok]
  /\ UNCHANGED <<tx, air, relay, polls>>
  /\ UNCHANGED <<fdVars, host, backend, written>>

\* LoRaComm::sendUplink called by a device whose state is n: transmitted
\* is the result of radio.transmit. One packet is in flight at a time: the
\* call is made once the relay has read the previous packet.
SendUplinkFrom(n, port, data, transmitted) ==
  /\ air = <<>>
  /\ tx.count < MaxSends
  /\ IF ~n.initialized
     THEN /\ tx' = [tx EXCEPT !.outcome = "refused"]
          /\ node' = n
          /\ UNCHANGED air
     ELSE \E packet \in { BuildPacket(n.frameCounter, port, data) } :
            IF transmitted
            THEN /\ node' = [n EXCEPT !.frameCounter = NextFrameCounter(@)]
                 /\ tx' = [outcome |-> "sent", count |-> tx.count + 1,
                           packet |-> packet]
                 /\ air' = packet
            ELSE /\ tx' = [tx EXCEPT !.outcome = "failed"]
                 /\ node' = n
                 /\ UNCHANGED air
  /\ UNCHANGED <<relay, polls>>
  /\ UNCHANGED <<fdVars, host, backend, written>>

\* LoRaComm::sendUplink
SendUplink(port, data, transmitted) ==
  SendUplinkFrom(node, port, data, transmitted)

\* ------------------------------------------------------------------------
\* Radio link, relay side: the gateway's loop()
\* ------------------------------------------------------------------------
\* a byte read as int8_t
Int8(b) == IF b >= 128 THEN b - ByteModulus ELSE b

\* "((tempEncoded / 255.0) * 100.0) - 20.0" in tenths of a degree
DecodeTemperature(tempEncoded) ==
  (tempEncoded * 1000) \div 255 - 200

\* bit test "(alertFlags & mask) != 0" for a one-bit mask
BitSet(flags, mask) == (flags \div mask) % 2 = 1

\* variant: the two counter bytes are read in the opposite order
DecodeFrameCounter_Swapped(data) ==
  (data[11] * ByteModulus + data[12]) % FrameCounterModulus

\* "(data[11] << 8) | data[10]" stored in a uint16_t
DecodeFrameCounter(data) ==
  (data[12] * ByteModulus + data[11]) % FrameCounterModulus

\* parsePacketInfo: data[i] of the code is data[i + 1] here
parsePacketInfo(lp, data) ==
  IF Len(data) < 13 THEN lp
  ELSE
    LET a == [lp EXCEPT !.deviceId = SubSeq(data, 1, 10),
                        !.frameCounter = DecodeFrameCounter(data),
                        !.type = data[13],
                        !.noiseAlert = FALSE, !.hrAlert = FALSE,
                        !.tempAlert = FALSE]
    IN IF a.type = 1 /\ Len(data) >= 23 THEN
         [a EXCEPT !.heartRate = Int8(data[15]),
                   !.temperature = DecodeTemperature(data[16]),
                   !.noiseLevel = data[18],
                   !.fallState = data[19],
                   !.fallDetected = data[19] >= 2,
                   !.hrAlert = BitSet(data[20], 1),
                   !.tempAlert = BitSet(data[20], 2),
                   !.noiseAlert = BitSet(data[20], 8)]
       ELSE IF a.type = 2 THEN
         [a EXCEPT !.heartRate = -1, !.temperature = 0, !.noiseLevel = 0,
                   !.fallState = 0, !.fallDetected = FALSE]
       ELSE IF a.type = 3 /\ Len(data) >= 58 THEN
         [a EXCEPT !.heartRate = Int8(data[41]),
                   !.temperature = DecodeTemperature(data[42]),
                   !.noiseLevel = 0, !.fallState = 2, !.fallDetected = TRUE]
       ELSE a

\* variant: the end marker is not looked at
SyncMessage_NoEndMarker(syncBuffer) ==
  syncBuffer[1] = 255 /\ syncBuffer[2] = 254

\* "syncBuffer[0] == 0xFF && syncBuffer[1] == 0xFE && syncBuffer[9] == 0xFD"
SyncMessage(syncBuffer) ==
  syncBuffer[1] = 255 /\ syncBuffer[2] = 254 /\ syncBuffer[10] = 253

\* the clock a time-sync message sets
SyncedTime(syncBuffer) ==
  [ year |-> (syncBuffer[3] * ByteModulus + syncBuffer[4]) % FrameCounterModulus,
    month |-> syncBuffer[5], day |-> syncBuffer[6], hour |-> syncBuffer[7],
    minute |-> syncBuffer[8], second |-> syncBuffer[9], valid |-> TRUE ]

\* checkUartTimeSync on the clock ct and the waiting bytes input: the pair
\* of the clock and the bytes left when the loop ends
RECURSIVE SyncLoop(_, _)
SyncLoop(ct, input) ==
  IF Len(input) < 10 THEN <<ct, input>>
  ELSE IF input[1] = 255 THEN
    LET syncBuffer == SubSeq(input, 1, 10)
        rest == SubSeq(input, 11, Len(input))
    IN IF SyncMessage(syncBuffer) THEN <<SyncedTime(syncBuffer), rest>>
       ELSE SyncLoop(ct, rest)
  ELSE SyncLoop(ct, Tail(input))

\* variant: a message is taken off the input but the clock is left alone
checkUartTimeSync_ClockKept(r) ==
  LET result == SyncLoop(r.currentTime, r.serialIn)
  IN [r EXCEPT !.serialIn = result[2]]

checkUartTimeSync(r) ==
  LET result == SyncLoop(r.currentTime, r.serialIn)
  IN [r EXCEPT !.currentTime = result[1], !.serialIn = result[2]]

\* the condition under which updateDisplay redraws the whole screen
FullRefreshDue(r) ==
  \/ r.needsFullRefresh
  \/ r.lastPacket.fallState = 3
  \/ (r.lastPacket.fallDetected /\ r.lastPacket.type = 3)

\* updateDisplay, as far as it writes the relay's state: a full refresh
\* shows the skipped count and clears it
updateDisplay(r) ==
  IF ~r.displayAvailable THEN r
  ELSE IF FullRefreshDue(r)
       THEN [r EXCEPT !.packetsSkipped = 0,
                      !.needsFullRefresh = r.lastPacket.fallDetected]
       ELSE r

\* "packetType == 0 || packetType > 3"
UnknownType(packetType) == packetType = 0 \/ packetType > 3

\* variant: only the length is tested
Malformed_LengthOnly(buf) ==
  Len(buf) < 13

\* a received packet the relay does not parse
Malformed(buf) == Len(buf) < 13 \/ UnknownType(buf[13])

\* byte-for-byte comparison with the last packet that was skipped
isDuplicate(r, buf) ==
  /\ r.lastRxLength = Len(buf)
  /\ Len(buf) > 0
  /\ \A i \in 1..Len(buf) : buf[i] = r.lastRxBuffer[i]

\* memcpy(lastRxBuffer, rxBuffer, len): the bytes beyond len stay
StoreSkipped(old, buf) ==
  [ i \in 1..(IF Len(old) > Len(buf) THEN Len(old) ELSE Len(buf)) |->
      IF i <= Len(buf) THEN buf[i] ELSE old[i] ]

\* variant: every malformed packet is treated as new
SkipPacket_NoDedup(r, buf) ==
  LET a == [r EXCEPT !.packetsSkipped = @ + 1,
                     !.lastRxBuffer = StoreSkipped(@, buf),
                     !.lastRxLength = Len(buf)]
  IN IF a.displayAvailable /\ a.packetsReceived > 0
     THEN updateDisplay(a) ELSE a

\* the two branches of loop() that skip a malformed packet; the uint32_t
\* counters of the relay stay far below their range
SkipPacket(r, buf) ==
  IF isDuplicate(r, buf) THEN r
  ELSE
    LET a == [r EXCEPT !.packetsSkipped = @ + 1,
                       !.lastRxBuffer = StoreSkipped(@, buf),
                       !.lastRxLength = Len(buf)]
    IN IF a.displayAvailable /\ a.packetsReceived > 0
       THEN updateDisplay(a) ELSE a

\* variant: the offset is left out
RssiByte_NoOffset(rssi) == rssi % ByteModulus

\* "(uint8_t)(rssi + 150)": an int converted to uint8_t
RssiByte(rssi) == (rssi + 150) % ByteModulus

\* "(uint8_t)(snr + 20)" with snr a float that is a multiple of 0.25 dB,
\* given here in quarters of a dB: the fraction is dropped; a value that
\* truncates to something outside 0..255 is undefined and may give any byte
SnrBytes(snr4) ==
  IF snr4 + 80 >= 0 /\ snr4 + 80 < 4 * ByteModulus THEN { (snr4 + 80) \div 4 }
  ELSE IF snr4 + 80 > -4 THEN {0}
  ELSE 0..(ByteModulus - 1)

\* variant: the length byte is left out of the frame
forwardToRaspberryPi_NoLength(data, rssi, snrByte) ==
  <<170, RssiByte(rssi), snrByte>> \o data \o <<85>>

\* the bytes forwardToRaspberryPi writes to the serial link; snrByte is the
\* byte the conversion of snr + 20 gave
forwardToRaspberryPi(data, rssi, snrByte) ==
  <<170, Len(data) % ByteModulus, RssiByte(rssi), snrByte>> \o data \o <<85>>

\* variant: every valid packet is counted
NewFrame_Always(lp, lastFrameCounter) ==
  TRUE

\* "lastPacket.frameCounter != lastFrameCounter"
NewFrame(lp, lastFrameCounter) ==
  lp.frameCounter # lastFrameCounter

\* the branch of loop() that handles a packet of a known type
AcceptPacket(r, buf, rssi, snr4, snrByte) ==
  LET lp == parsePacketInfo(r.lastPacket, buf)
      a == [r EXCEPT !.lastPacket = lp]
      b == IF NewFrame(lp, r.lastFrameCounter)
           THEN [a EXCEPT !.packetsReceived = @ + 1,
                          !.needsFullRefresh = TRUE,
                          !.lastFrameCounter = lp.frameCounter]
           ELSE a
      c == IF lp.type # b.lastPacketType \/ lp.fallState = 3
              \/ (lp.fallDetected /\ lp.type = 3)
           THEN [b EXCEPT !.needsFullRefresh = TRUE, !.lastPacketType = lp.type]
           ELSE b
      d == [c EXCEPT !.forwarded = @ + 1, !.lastForwarded = buf,
                     !.lastFrame = forwardToRaspberryPi(buf, rssi, snrByte),
                     !.lastSignal = <<rssi, snr4>>]
  IN updateDisplay(d)

\* loop() with a packet of positive length read without error, received
\* at rssi dBm and snr4 quarters of a dB; snrByte is what the conversion of
\* snr + 20 to a byte gave
RelayLoop(r, buf, rssi, snr4, snrByte) ==
  LET a == checkUartTimeSync(r)
  IN IF Malformed(buf) THEN SkipPacket(a, buf)
     ELSE AcceptPacket(a, buf, rssi, snr4, snrByte)

\* setup(): initDisplay succeeds or fails, then the ready screen is drawn
RelaySetup(displayOk) ==
  /\ ~relay.booted
  /\ relay' = updateDisplay([relay EXCEPT !.booted = TRUE,
                                          !.displayAvailable = displayOk,
                                          !.needsFullRefresh = TRUE])
  /\ UNCHANGED <<node, tx, air, polls>>
  /\ UNCHANGED <<fdVars, host, backend, written>>

\* loop() reads the packet in flight, received at -80 dBm and 9.75 dB
Deliver ==
  /\ relay.booted
  /\ air # <<>>
  /\ \E snrByte \in SnrBytes(39) :
       relay' = RelayLoop(relay, air, -80, 39, snrByte)
  /\ air' = <<>>
  /\ UNCHANGED <<node, tx, polls>>
  /\ UNCHANGED <<fdVars, host, backend, written>>

\* ------------------------------------------------------------------------
\* Uplink: the device sends realtime packets one after another, each send
\* succeeding or failing, and the relay reads each packet that was sent
\* ------------------------------------------------------------------------
\* a realtime payload: type, heart rate, body and ambient temperature,
\* noise, fall state, alert flags, three placeholder bytes
RealtimePayload == <<1, 72, 145, 115, 55, 0, 0, 0, 0, 0>>

NextUplink ==
  \/ \E ok \in BOOLEAN : Begin(ok)
  \/ \E transmitted \in BOOLEAN : SendUplink(1, RealtimePayload, transmitted)
  \/ RelaySetup(FALSE)
  \/ Deliver

SpecUplink == Init /\ [][NextUplink]_vars

\* ------------------------------------------------------------------------
\* Relay: the gateway's loop() fed any sequence of received packets, valid
\* ones of the three types and malformed ones, with or without a display
\* ------------------------------------------------------------------------
\* a realtime packet carrying fall state DANGEROUS
DangerousPayload == <<1, 72, 145, 115, 55, 3, 4, 0, 0, 0>>

\* the longest packet the radio delivers: 255 bytes
LongestPacket == BuildPacket(3, 2, [i \in 1..242 |-> i])

ValidPackets ==
  { BuildPacket(0, 1, RealtimePayload), BuildPacket(1, 1, RealtimePayload),
    BuildPacket(1, 2, <<2, 0, 0>>), BuildPacket(2, 1, DangerousPayload),
    BuildPacket(2, 3, <<3>>), LongestPacket }

\* radio.getRSSI() in dBm and radio.getSNR() in quarters of a dB
RssiValues == {-120, -30}
SnrValues == {-50, 39}

\* too short, and of full header length with a packet type outside 1..3
MalformedPackets ==
  { <<7, 7, 7>>, <<7, 7, 8>>, <<7, 7, 7, 7>>,
    BuildPacket(1, 0, <<>>), BuildPacket(1, 4, RealtimePayload) }

RelayReceive ==
  \E buf \in ValidPackets \cup MalformedPackets,
     rssi \in RssiValues, snr4 \in SnrValues :
    /\ relay.booted
    /\ polls < MaxPackets
    /\ polls' = polls + 1
    /\ \E snrByte \in SnrBytes(snr4) :
         relay' = RelayLoop(relay, buf, rssi, snr4, snrByte)
    /\ air' = buf
    /\ UNCHANGED <<node, tx>>
    /\ UNCHANGED <<fdVars, host, backend, written>>

NextRelay ==
  \/ \E displayOk \in BOOLEAN : RelaySetup(displayOk)
  \/ RelayReceive

SpecRelay == Init /\ [][NextRelay]_vars

\* ------------------------------------------------------------------------
\* Time sync: the host writes time-sync messages, damaged messages and
\* stray bytes to the relay's serial input, and the relay runs loop()
\* iterations in which the radio has no packet
\* ------------------------------------------------------------------------
\* 2025-11-02 12:30:45 and 2026-01-31 23:59:58
SyncNoon == <<255, 254, 7, 233, 11, 2, 12, 30, 45, 253>>
SyncNight == <<255, 254, 7, 234, 1, 31, 23, 59, 58, 253>>

\* a message with a wrong end marker, one with a wrong second byte, the
\* first bytes of a message, and bytes that start no message
HostChunks ==
  { SyncNoon, SyncNight,
    <<255, 254, 7, 233, 11, 2, 12, 30, 45, 0>>,
    <<255, 0, 7, 233, 11, 2, 12, 30, 45, 253>>,
    <<255, 7>>, <<170, 254, 253>> }

HostWrite ==
  \E chunk \in HostChunks :
    /\ relay.booted
    /\ Len(relay.serialIn) + Len(chunk) <= MaxSerialIn
    /\ relay' = [relay EXCEPT !.serialIn = @ \o chunk]
    /\ UNCHANGED <<node, tx, air, polls>>
    /\ UNCHANGED <<fdVars, host, backend, written>>

\* loop() with no packet on the radio
IdleLoop ==
  /\ relay.booted
  /\ polls < MaxIdleLoops
  /\ polls' = polls + 1
  /\ relay' = checkUartTimeSync(relay)
  /\ UNCHANGED <<node, tx, air>>
  /\ UNCHANGED <<fdVars, host, backend, written>>

NextTimeSync ==
  \/ \E displayOk \in BOOLEAN : RelaySetup(displayOk)
  \/ HostWrite
  \/ IdleLoop

SpecTimeSync == Init /\ [][NextTimeSync]_vars

\* ------------------------------------------------------------------------
\* Line: the host writes time-sync messages and line noise, with and
\* without 0xFF, to the relay's serial input; what it wrote is recorded,
\* and the relay runs loop() again and again
\* ------------------------------------------------------------------------
MaxWrites == 3
MaxLineLoops == 2

\* the two messages, noise without 0xFF and noise with it
LineChunks == { SyncNoon, SyncNight, <<170, 254, 253>>, <<255, 7>> }

LineWrite ==
  \E chunk \in LineChunks :
    /\ relay.booted
    /\ Len(written) < MaxWrites
    /\ relay' = [relay EXCEPT !.serialIn = @ \o chunk]
    /\ written' = Append(written, chunk)
    /\ UNCHANGED <<node, tx, air, polls>>
    /\ UNCHANGED <<fdVars, host, backend>>

\* loop() with no packet on the radio
LineLoop ==
  /\ relay.booted
  /\ polls < MaxLineLoops
  /\ polls' = polls + 1
  /\ relay' = checkUartTimeSync(relay)
  /\ UNCHANGED <<node, tx, air>>
  /\ UNCHANGED <<fdVars, host, backend, written>>

NextLine ==
  \/ RelaySetup(FALSE)
  \/ LineWrite
  \/ LineLoop

\* loop() is called again and again for as long as the relay runs
SpecLine == Init /\ [][NextLine]_vars /\ WF_vars(LineLoop)

\* ------------------------------------------------------------------------
\* Properties
\* ------------------------------------------------------------------------
IsTick == ticks' = ticks + 1

\* the transition graph of the fall state
GraphEdges ==
  { <<NORMAL, WARNING>>, <<WARNING, NORMAL>>, <<WARNING, FALL_DETECTED>>,
    <<FALL_DETECTED, DANGEROUS>>, <<FALL_DETECTED, RECOVERY>>,
    <<DANGEROUS, RECOVERY>>, <<RECOVERY, NORMAL>> }

\* C1: every change of the fall state made during a detectFall call, taken
\* one assignment at a time, follows an edge of the transition graph.
C1_GraphEdgesOnly ==
  \A i \in 1..(Len(path) - 1) :
    path[i] = path[i + 1] \/ <<path[i], path[i + 1]>> \in GraphEdges

\* C2 as stated: a call entered in NORMAL ends in NORMAL or WARNING.
C2_NormalThenWarningOnly ==
  [][(IsTick /\ fd.current_state = NORMAL)
       => fd'.current_state \in {NORMAL, WARNING}]_vars

\* C2: a call entered in NORMAL ends in NORMAL, WARNING or FALL_DETECTED,
\* never in DANGEROUS or RECOVERY; it ends in FALL_DETECTED only when that
\* call opened a warning and its confirmation stage confirmed the fall.
C2_NormalSuccessors ==
  [][(IsTick /\ fd.current_state = NORMAL)
       => /\ fd'.current_state \in {NORMAL, WARNING, FALL_DETECTED}
          /\ (fd'.current_state = FALL_DETECTED
                => path'[3] = WARNING /\ scored'.fall_confirmed)]_vars

\* a call has just taken the detector from NORMAL to FALL_DETECTED
C2_Witness ==
  ticks > 0 /\ path[1] = NORMAL /\ fd.current_state = FALL_DETECTED

C5_ConfirmationRule ==
  [][(IsTick /\ fd.current_state = WARNING)
       => ((fd'.current_state = FALL_DETECTED)
            <=> /\ scored'.evaluated
                /\ \/ scored'.criteria_score >= 6
                   \/ scored'.criteria_score >= 4 /\ scored'.criteria_count >= 3
                /\ ~scored'.likely_jumping)]_vars

\* a call entered in WARNING has just confirmed a fall on the lower cutoff
C5_Witness ==
  /\ ticks > 0
  /\ path[1] = WARNING
  /\ fd.current_state = FALL_DETECTED
  /\ scored.criteria_score < 6

\* C6 as stated: with jumping flagged, a score of at least 6 still confirms.
C6_HighScoreOverridesJumping ==
  (scored.evaluated /\ scored.likely_jumping /\ scored.criteria_score >= 6)
    => fd.current_state = FALL_DETECTED

\* C6: with jumping flagged the confirmation is suppressed whatever the
\* score: the call confirms nothing, and with a score of at least 6 the
\* detector stays in WARNING.
C6_JumpingSuppresses ==
  (scored.evaluated /\ scored.likely_jumping)
    => /\ ~scored.fall_confirmed
       /\ fd.current_state \in {NORMAL, WARNING}
       /\ (scored.criteria_score >= 6 => fd.current_state = WARNING)

\* jumping flagged on a call whose score reached the high cutoff
C6_Witness ==
  /\ scored.evaluated
  /\ scored.likely_jumping
  /\ scored.criteria_score >= 6
  /\ fd.current_state = WARNING

\* C7: is_immobile is false whenever the window holds fewer than
\* IMMOBILITY_SAMPLE_COUNT samples.
C7_ImmobileNeedsFullWindow ==
  fd.immobility_buffer.sample_count < IMMOBILITY_SAMPLE_COUNT
    => ~fd.latest_event.is_immobile

\* a later fall episode with a partly filled window: the last slot still
\* holds a sample of the earlier episode
C7_Witness ==
  /\ fd.current_state = FALL_DETECTED
  /\ fd.immobility_buffer.sample_count > 0
  /\ fd.immobility_buffer.sample_count < IMMOBILITY_SAMPLE_COUNT
  /\ fd.immobility_buffer.accel_samples[IMMOBILITY_SAMPLE_COUNT - 1] # 0

\* C8: a call entered in FALL_DETECTED changes the state only in its
\* post-fall monitoring stage, after the grace period, on the sample that
\* fills the window, to DANGEROUS exactly when at least 3 of the 4
\* immobility criteria hold on that window and to RECOVERY otherwise.
C8_LeavesFallOnVerdict ==
  [][(IsTick /\ fd.current_state = FALL_DETECTED
        /\ \E i \in 1..Len(path') : path'[i] # FALL_DETECTED)
       => /\ path'[4] = FALL_DETECTED
          /\ path'[5] \in {DANGEROUS, RECOVERY}
          /\ now' - fd.state_change_time > FALL_CONFIRMATION_WINDOW
          /\ fd.immobility_buffer.sample_count = IMMOBILITY_SAMPLE_COUNT - 1
          /\ fd'.immobility_buffer.accel_samples # fd.immobility_buffer.accel_samples
               \/ fd'.immobility_buffer.sample_index # fd.immobility_buffer.sample_index
          /\ (path'[5] = DANGEROUS
                <=> ImmobilityCriteria(fd'.immobility_buffer) >= 3)]_vars

\* C9: a call takes the detector from RECOVERY to NORMAL exactly when the
\* cool-down since last_fall_time has elapsed, resetting the window, and
\* every confirmation of a fall finds the window empty and no verdict.
C9_CooldownAndFreshWindow ==
  [][IsTick
       => /\ (fd.current_state = RECOVERY /\ fd'.current_state = NORMAL)
               => /\ now' - fd.last_fall_time > RECOVERY_TIME_WINDOW
                  /\ fd'.immobility_buffer.sample_count = 0
                  /\ fd'.immobility_buffer.sample_index = 0
          /\ (fd.current_state = RECOVERY
                /\ now' - fd.last_fall_time > RECOVERY_TIME_WINDOW)
               => fd'.current_state = NORMAL
          /\ scored'.fall_confirmed
               => /\ fd'.immobility_buffer.sample_count = 0
                  /\ ~fd'.latest_event.is_immobile]_vars

\* C10: a call entered in NORMAL, WARNING or RECOVERY leaves the window as
\* it was, except that a call entered in RECOVERY that ends in NORMAL
\* resets its index and count; samples are written only by calls entered
\* in FALL_DETECTED or DANGEROUS.
C10_WindowFrame ==
  [][(IsTick /\ fd.current_state \in {NORMAL, WARNING, RECOVERY})
       => \/ fd'.immobility_buffer = fd.immobility_buffer
          \/ /\ fd.current_state = RECOVERY
             /\ fd'.current_state = NORMAL
             /\ fd'.immobility_buffer =
                  [fd.immobility_buffer EXCEPT !.sample_count = 0,
                                               !.sample_index = 0]]_vars

\* a call entered in RECOVERY has just ended in NORMAL with the window,
\* which still holds the episode's samples, reset
C10_Witness ==
  /\ ticks > 0
  /\ path[1] = RECOVERY
  /\ fd.current_state = NORMAL
  /\ fd.immobility_buffer.sample_count = 0
  /\ fd.immobility_buffer.accel_samples[0] # 0

\* C11: after every detectFall call the event it returns carries the
\* detector's current state, the time of that call and that call's
\* confirmation flag.
C11_EventOverwritten ==
  ticks > 0
    => /\ fd.latest_event.state = fd.current_state
       /\ fd.latest_event.timestamp = now
       /\ fd.latest_event.confirmed = scored.fall_confirmed

\* C12: a call that confirms a fall ends with the impact, warning and
\* sustained-rotation counters at zero and last_fall_time at its own time.
C12_ConfirmResets ==
  [][(IsTick /\ scored'.fall_confirmed)
       => /\ fd'.impact_counter = 0
          /\ fd'.warning_counter = 0
          /\ fd'.gyro_sustained_counter = 0
          /\ fd'.last_fall_time = now']_vars

\* a call entered in WARNING with impacts and rotation counted has just
\* confirmed a fall
C12_Witness ==
  /\ scored.fall_confirmed
  /\ path[1] = WARNING
  /\ fd.latest_event.angular_velocity > cfg.GYRO_THRESHOLD_SUSTAINED
  /\ fd.last_fall_time = now
  /\ fd.gyro_sustained_counter = 0

\* C13: on a call that takes the detector from NORMAL into WARNING the
\* warning duration of the confirmation stage is zero: it is measured from
\* that call's own time.
C13_WarningStartStamped ==
  [][(IsTick /\ path'[1] = NORMAL /\ path'[3] = WARNING)
       => scored'.warning_duration = 0]_vars

\* C14: a call that scores a warning older than FALL_SEQUENCE_WINDOW below
\* 4, without having rejected it as bowing, ends in NORMAL.
C14_WarningTimesOut ==
  [][(/\ IsTick
      /\ scored'.evaluated
      /\ scored'.warning_duration > FALL_SEQUENCE_WINDOW
      /\ scored'.criteria_score < 4)
       => fd'.current_state = NORMAL]_vars

\* a call entered in WARNING has timed the warning out with rotation still
\* counted and the score at 1 or more
C14_Witness ==
  /\ scored.evaluated
  /\ path[1] = WARNING
  /\ path[3] = WARNING
  /\ scored.warning_duration > FALL_SEQUENCE_WINDOW
  /\ scored.warning_duration <= BOWING_REJECTION_TIME
  /\ scored.criteria_score \in 1..3
  /\ fd.current_state = NORMAL
  /\ fd.warning_start_time = 0

\* C15: a detectFall call on a detector that is not calibrated completes,
\* and criterion 3 (posture) adds nothing to its score or to its criteria
\* count; the event's angles stay as they were.
C15_UncalibratedSkipsPosture ==
  [][(IsTick /\ ~fd.is_calibrated)
       => /\ scored'.posture_score = 0
          /\ scored'.posture_count = 0
          /\ scored'.criteria_count <= 4
          /\ fd'.latest_event.pitch_angle = fd.latest_event.pitch_angle
          /\ fd'.latest_event.roll_angle = fd.latest_event.roll_angle
          /\ fd'.latest_event.timestamp = now']_vars

\* an uncalibrated detector has scored a warning on a reading taken lying
\* on the side, 90 degrees from the zero baseline
C15_Witness ==
  /\ ~fd.is_calibrated
  /\ ticks > 0
  /\ scored.evaluated
  /\ fd.latest_event.timestamp = now
  /\ fd.latest_event.angular_velocity
       = calculateAngularVelocity(Tumbling[1], Tumbling[2], Tumbling[3])
  /\ scored.posture_score = 0

\* C16: a sendUplink call that transmits advances frameCounter by one
\* (mod 65536) and its packet carries the counter that follows the one of
\* the previous transmitted packet; any other step, a failed or refused
\* call included, leaves frameCounter unchanged.
C16_FrameCounterStep ==
  [][/\ (tx'.count = tx.count + 1)
          => /\ node'.frameCounter = (node.frameCounter + 1) % FrameCounterModulus
             /\ DecodeFrameCounter(tx'.packet) = node.frameCounter
             /\ (tx.count > 0)
                  => DecodeFrameCounter(tx'.packet)
                       = (DecodeFrameCounter(tx.packet) + 1) % FrameCounterModulus
     /\ (tx'.count = tx.count) => node'.frameCounter = node.frameCounter]_vars

\* a send has failed after the packets numbered 0 and 1 were transmitted
C16_Witness ==
  /\ tx.outcome = "failed"
  /\ tx.count = 2
  /\ DecodeFrameCounter(tx.packet) = 1
  /\ node.frameCounter = 2

\* C17: frameCounter is the number of transmitted packets mod 65536, so it
\* is 0 again after 65536 of them; the relay skips none of the packets and
\* reads from each the counter it was sent with, before and after the wrap.
C17_WrapAround ==
  /\ node.frameCounter = tx.count % FrameCounterModulus
  /\ relay.packetsSkipped = 0
  /\ relay.forwarded = (IF air = <<>> THEN tx.count ELSE tx.count - 1)
  /\ (relay.forwarded > 0)
       => relay.lastPacket.frameCounter
            = (relay.forwarded - 1) % FrameCounterModulus

\* the relay has read the packet that follows the wrap: 65537 packets
\* were transmitted, the last one numbered 0
C17_Witness ==
  /\ tx.count = FrameCounterModulus + 1
  /\ air = <<>>
  /\ node.frameCounter = 1
  /\ relay.lastPacket.frameCounter = 0
  /\ relay.lastForwarded = BuildPacket(0, 1, RealtimePayload)

\* the relay's loop() has just read a packet
IsReceive == polls' = polls + 1

\* C18: a loop() that reads a packet shorter than 13 bytes or of a type
\* outside 1..3 completes and leaves the last valid telemetry, the
\* received count and the serial link as they were.
C18_MalformedRejected ==
  [][(IsReceive /\ (Len(air') < 13 \/ air'[13] \notin {1, 2, 3}))
       => /\ relay'.lastPacket = relay.lastPacket
          /\ relay'.lastFrameCounter = relay.lastFrameCounter
          /\ relay'.packetsReceived = relay.packetsReceived
          /\ relay'.forwarded = relay.forwarded
          /\ relay'.lastForwarded = relay.lastForwarded]_vars

\* a packet of full header length and type 4 was read after one valid
\* packet, and the telemetry of the valid packet is still stored
C18_Witness ==
  /\ air = BuildPacket(1, 4, RealtimePayload)
  /\ relay.lastRxLength = Len(air)
  /\ relay.packetsReceived = 1
  /\ relay.forwarded = 1
  /\ relay.lastPacket.type = 1
  /\ relay.lastPacket.frameCounter = 1

\* C19: a loop() that reads a malformed packet leaves the skip counter one
\* higher when the packet differs in length or in a byte from the last
\* malformed packet, and unchanged when it is identical to it.
C19_SkipCounter ==
  [][(IsReceive /\ Malformed(air'))
       => relay'.packetsSkipped
            = relay.packetsSkipped + (IF isDuplicate(relay, air') THEN 0 ELSE 1)]_vars

\* C20: a loop() that reads a valid packet raises the received count by
\* one or leaves it; it raises it only if the packet's frameCounter differs
\* from that of the previous valid packet, and leaves it when the packet
\* repeats that frameCounter.
C20_CountsNewFramesOnly ==
  [][(IsReceive /\ ~Malformed(air'))
       => /\ relay'.packetsReceived \in {relay.packetsReceived, relay.packetsReceived + 1}
          /\ (relay.forwarded > 0 /\ relay'.packetsReceived # relay.packetsReceived)
               => DecodeFrameCounter(air') # DecodeFrameCounter(relay.lastForwarded)
          /\ (relay.forwarded > 0
                /\ DecodeFrameCounter(air') = DecodeFrameCounter(relay.lastForwarded))
               => relay'.packetsReceived = relay.packetsReceived]_vars

\* two valid packets were read, the second an ECG packet numbered 1 like
\* the packet before it, and one packet was counted
C20_Witness ==
  /\ polls = 2
  /\ relay.forwarded = 2
  /\ relay.packetsReceived = 1
  /\ air = BuildPacket(1, 2, <<2, 0, 0>>)
  /\ relay.lastPacket.frameCounter = 1
  /\ relay.lastPacketType = 2

From(input, k) == SubSeq(input, k, Len(input))

MaxTelemetrySends == 1

\* "(int)" applied to a float whose value is n / d: the fraction is dropped,
\* towards zero
TruncDiv(n, d) == IF n >= 0 THEN n \div d ELSE -((-n) \div d)

\* Arduino's constrain(x, lo, hi)
constrain(x, lo, hi) == IF x < lo THEN lo ELSE IF x > hi THEN hi ELSE x

\* a value stored into a uint8_t
ToUint8(v) == v % ByteModulus

\* PayloadBuilder::tempToInt8 for a temperature in tenths of a degree:
\* "(int)((temp + 20.0) / 100.0 * 255.0)", constrained to 0..255 and
\* returned as int8_t
tempToInt8(temp) ==
  Int8(constrain(TruncDiv((temp + 200) * 255, 1000), 0, 255))

\* "if (hrAbnormal) flags |= 0x01; ..." for the four alert bits
AlertFlags(hrAbnormal, tempAbnormal, fallAlert, noiseAlert) ==
  (IF hrAbnormal THEN 1 ELSE 0) + (IF tempAbnormal THEN 2 ELSE 0)
    + (IF fallAlert THEN 4 ELSE 0) + (IF noiseAlert THEN 8 ELSE 0)

\* PayloadBuilder::buildRealtimePayload; noisedB is in tenths of a dB
buildRealtimePayload(bpm, bodyTemp, ambientTemp, noisedB, fallState, hrAbnormal, tempAbnormal, fallAlert, noiseAlert) ==
  << 1, ToUint8(constrain(bpm, 0, 255)), ToUint8(tempToInt8(bodyTemp)),
     ToUint8(tempToInt8(ambientTemp)),
     ToUint8(constrain(TruncDiv(noisedB, 10), 0, 255)), fallState,
     AlertFlags(hrAbnormal, tempAbnormal, fallAlert, noiseAlert),
     0, 0, 0 >>

\* "(maxNoisedB > 0) ? maxNoisedB : soundLevel"
NoiseToSend(v) == IF v.maxNoisedB > 0 THEN v.maxNoisedB ELSE v.soundLevel

\* the payload loop() builds from its readings for the periodic realtime
\* transmission
RealtimeOf(v) ==
  buildRealtimePayload(
    IF v.bpm > 0 THEN v.bpm ELSE 0,
    IF ~v.bodyNan THEN v.currentTemp ELSE 0,
    IF ~v.ambientNan THEN v.ambientTemp ELSE 0,
    NoiseToSend(v),
    v.fallState,
    v.hrStatus = 1 \/ v.hrStatus = 2,
    v.tempStatus = 3 \/ v.tempStatus = 4,
    v.fallState = 2 \/ v.fallState = 3,
    NoiseToSend(v) > 1000)

\* server.js decodeTemperature, "((encoded / 255.0) * 100.0) - 20.0", as a
\* whole number of 1/2550 degree (a tenth of a degree is 255 of them)
decodeTemperature(encoded) == encoded * 1000 - 20 * 2550

\* the temperatures from -20 to 80 degrees in steps of 0.4, in tenths
Temps == { 4 * k - 200 : k \in 0..250 }

\* readings with every temperature of the range, and readings at and beyond
\* the ends of every field's range
Vitals ==
  [ bpm : {72}, currentTemp : Temps, bodyNan : {FALSE}, ambientTemp : {231},
    ambientNan : {FALSE}, soundLevel : {550}, maxNoisedB : {0},
    hrStatus : {0}, tempStatus : {0}, fallState : {0} ]
  \cup
  [ bpm : {-1, 300}, currentTemp : {-300, 900}, bodyNan : BOOLEAN,
    ambientTemp : {231}, ambientNan : BOOLEAN, soundLevel : {1005},
    maxNoisedB : {0, 2600}, hrStatus : {1}, tempStatus : {3},
    fallState : {3} ]

\* the device after a send made from the readings held by n: the model keeps
\* the readings of the packets that were transmitted
Collected(n, transmitted) ==
  IF transmitted /\ node.initialized THEN n ELSE node

\* loop(), periodic realtime transmission: the readings are collected, the
\* payload is built and sent on port 1
SendRealtime(v, transmitted) ==
  /\ tx.count < MaxTelemetrySends
  /\ SendUplinkFrom(Collected([node EXCEPT !.vitals = v], transmitted),
                    1, RealtimeOf(v), transmitted)

\* a value stored into a uint16_t
ToUint16(v) == v % FrameCounterModulus

\* "output[idx++] = (x >> 8) & 0xFF; output[idx++] = x & 0xFF" for a
\* 16-bit x, signed or unsigned
HighThenLow(x) ==
  << (ToUint16(x) \div ByteModulus) % ByteModulus, ToUint16(x) % ByteModulus >>

\* AD8232::getPQRSTData: no bytes without valid features, else 14
getPQRSTData(e) ==
  IF ~e.pqrstValid
  THEN << >>
  ELSE HighThenLow(e.lastPQRST.timestamp) \o HighThenLow(e.lastPQRST.p_amp)
         \o HighThenLow(e.lastPQRST.q_amp) \o HighThenLow(e.lastPQRST.r_amp)
         \o HighThenLow(e.lastPQRST.s_amp) \o HighThenLow(e.lastPQRST.t_amp)
         \o << e.lastPQRST.qrs_width, e.lastPQRST.qt_interval >>

\* AD8232::getCompressedECG(output, 50): the 50 compressed samples
getCompressedECG(e) == e.compressedECG

\* variant: nothing is written in place of missing features
buildECGPayload_NoPadding(compressedECG, ecgLen, pqrst, pqrstLen) ==
  << 2 >> \o SubSeq(compressedECG, 1, 50)
    \o (IF pqrstLen > 0 THEN SubSeq(pqrst, 1, 14) ELSE << >>)

\* PayloadBuilder::buildECGPayload for the lengths the two getters return
\* (50 samples; 14 feature bytes or none)
buildECGPayload(compressedECG, ecgLen, pqrst, pqrstLen) ==
  << 2 >> \o SubSeq(compressedECG, 1, 50)
    \o (IF pqrstLen > 0 THEN SubSeq(pqrst, 1, 14) ELSE [i \in 1..14 |-> 0])

\* the payload loop() builds for the periodic ECG transmission
EcgOf(e) ==
  buildECGPayload(getCompressedECG(e), Len(getCompressedECG(e)),
                  getPQRSTData(e), Len(getPQRSTData(e)))

\* "memcpy(&buffer[idx], &x, 4)" on the little-endian ESP32
Memcpy32(w) ==
  << w.lo % ByteModulus, w.lo \div ByteModulus,
     w.hi % ByteModulus, w.hi \div ByteModulus >>

\* PayloadBuilder::buildFallEventPayload
buildFallEventPayload(timestamp, jerk, svm, angularVel, pitch, roll, impactCount, warningCount, bpm, bodyTemp, accelX, accelY, accelZ, movementVar) ==
  << 3 >> \o Memcpy32(timestamp) \o Memcpy32(jerk) \o Memcpy32(svm)
    \o Memcpy32(angularVel) \o Memcpy32(pitch) \o Memcpy32(roll)
    \o << impactCount, warningCount, ToUint8(constrain(bpm, 0, 255)),
          ToUint8(tempToInt8(bodyTemp)) >>
    \o Memcpy32(accelX) \o Memcpy32(accelY) \o Memcpy32(accelZ)
    \o Memcpy32(movementVar)

\* the payload loop() builds for a confirmed fall
FallOf(f) ==
  buildFallEventPayload(f.timestamp, f.jerk_magnitude, f.svm_value,
                        f.angular_velocity, f.pitch_angle, f.roll_angle,
                        0, 0, IF f.bpm > 0 THEN f.bpm ELSE 0,
                        IF ~f.bodyNan THEN f.currentTemp ELSE 0,
                        f.accelX, f.accelY, f.accelZ, f.movement_variance)

\* Buffer.readUInt16LE, readInt16LE, readUInt32LE, readFloatLE and readInt8
\* at byte offset off (a float is read as its bits)
readUInt16LE(buffer, off) == buffer[off + 1] + ByteModulus * buffer[off + 2]

readInt16LE(buffer, off) ==
  IF readUInt16LE(buffer, off) >= FrameCounterModulus \div 2
  THEN readUInt16LE(buffer, off) - FrameCounterModulus
  ELSE readUInt16LE(buffer, off)

readUInt32LE(buffer, off) ==
  Word32(readUInt16LE(buffer, off + 2), readUInt16LE(buffer, off))

readFloatLE(buffer, off) == readUInt32LE(buffer, off)

\* server.js parsePacket on the payload bytes; decoded temperatures are in
\* units of 1/2550 degree
parsePacket(buffer, packetType) ==
  IF packetType = 1 /\ Len(buffer) >= 10
  THEN [ packet_type |-> buffer[1], heart_rate |-> buffer[2],
         body_temperature |-> decodeTemperature(buffer[3]),
         ambient_temperature |-> decodeTemperature(buffer[4]),
         noise_level |-> buffer[5], fall_state |-> buffer[6],
         alert_flags |-> buffer[7], rssi |-> readInt16LE(buffer, 7),
         snr |-> Int8(buffer[10]) ]
  ELSE IF packetType = 2 /\ Len(buffer) >= 65
  THEN [ packet_type |-> buffer[1], compressed_ecg |-> SubSeq(buffer, 2, 51),
         pqrst_timestamp |-> readUInt16LE(buffer, 51),
         p_amp |-> readInt16LE(buffer, 53), q_amp |-> readInt16LE(buffer, 55),
         r_amp |-> readInt16LE(buffer, 57), s_amp |-> readInt16LE(buffer, 59),
         t_amp |-> readInt16LE(buffer, 61), qrs_width |-> buffer[64],
         qt_interval |-> buffer[65] ]
  ELSE IF packetType = 3 /\ Len(buffer) >= 45
  THEN [ packet_type |-> buffer[1], timestamp |-> readUInt32LE(buffer, 1),
         jerk_magnitude |-> readFloatLE(buffer, 5),
         svm_value |-> readFloatLE(buffer, 9),
         angular_velocity |-> readFloatLE(buffer, 13),
         pitch_angle |-> readFloatLE(buffer, 17),
         roll_angle |-> readFloatLE(buffer, 21), impact_count |-> buffer[26],
         warning_count |-> buffer[27], heart_rate |-> buffer[28],
         body_temperature |-> decodeTemperature(buffer[29]),
         accel_x |-> readFloatLE(buffer, 29),
         accel_y |-> readFloatLE(buffer, 33),
         accel_z |-> readFloatLE(buffer, 37),
         movement_variance |-> readFloatLE(buffer, 41) ]
  ELSE [ null |-> TRUE ]

\* ECG readings: heart rates inside and outside the range that is sent, two
\* sample buffers, features present or not, field values whose two bytes
\* differ and values whose two bytes are equal
Ecgs ==
  [ bpm : {30, 72},
    compressedECG : { [i \in 1..50 |-> i], [i \in 1..50 |-> 255 - i] },
    pqrstValid : BOOLEAN,
    lastPQRST : [ timestamp : {0, 258, 65535}, p_amp : {-2, 513},
                  q_amp : {-300}, r_amp : {257, 1000}, s_amp : {-1},
                  t_amp : {150}, qrs_width : {90}, qt_interval : {200} ] ]

\* fall events: timestamps of 1 ms and of 0x12345678 ms, 9.81f
\* (0x411CF5C3), -1.5f (0xBFC00000) and 0.0f
Falls ==
  [ timestamp : { Word32(0, 1), Word32(4660, 22136) },
    jerk_magnitude : { Word32(16668, 62915) },
    svm_value : { Word32(16668, 62915), Word32(0, 0) },
    angular_velocity : { Word32(49088, 0) },
    pitch_angle : { Word32(49088, 0) }, roll_angle : { Word32(0, 0) },
    bpm : {-1, 72}, currentTemp : {365}, bodyNan : BOOLEAN,
    accelX : { Word32(0, 0) }, accelY : { Word32(49088, 0) },
    accelZ : { Word32(16668, 62915) },
    movement_variance : { Word32(16668, 62915) } ]

\* loop(), periodic ECG transmission on port 2, made when the heart rate is
\* between 40 and 150
SendECG(e, transmitted) ==
  /\ tx.count < MaxTelemetrySends
  /\ e.bpm > 40 /\ e.bpm < 150
  /\ SendUplinkFrom(Collected([node EXCEPT !.ecg = e], transmitted),
                    2, EcgOf(e), transmitted)

\* loop(), fall event transmission on port 3
SendFallEvent(f, transmitted) ==
  /\ tx.count < MaxTelemetrySends
  /\ SendUplinkFrom(Collected([node EXCEPT !.fall = f], transmitted),
                    3, FallOf(f), transmitted)

NextTelemetry ==
  \/ \E ok \in BOOLEAN : Begin(ok)
  \/ \E v \in Vitals, transmitted \in BOOLEAN : SendRealtime(v, transmitted)
  \/ \E e \in Ecgs, transmitted \in BOOLEAN : SendECG(e, transmitted)
  \/ \E f \in Falls, transmitted \in BOOLEAN : SendFallEvent(f, transmitted)
  \/ RelaySetup(FALSE)
  \/ Deliver

SpecTelemetry == Init /\ [][NextTelemetry]_vars

\* a call of sendUplink that transmitted a packet
IsSend == tx'.count = tx.count + 1

\* C23: for every temperature from -20 to 80 degrees in steps of 0.4 that a
\* realtime packet is built from, decoding the body temperature byte of the
\* packet gives a value within 0.2 degrees of it (510 / 2550 = 0.2)
C23_TemperatureRoundTrip ==
  [][(IsSend /\ tx'.packet[13] = 1 /\ ~node'.vitals.bodyNan
        /\ node'.vitals.currentTemp \in Temps)
       => LET d == decodeTemperature(tx'.packet[16])
                     - 255 * node'.vitals.currentTemp
          IN d <= 510 /\ -d <= 510]_vars


\* the payload of a packet: what follows the 13 header bytes
PayloadOf(packet) == SubSeq(packet, 14, Len(packet))

\* C24: the peer decoder recovers from every ECG packet that carries PQRST
\* features the timestamp and the five amplitudes that were encoded, and
\* from every fall event packet the timestamp and the nine float fields
C24_PeerDecodes ==
  [][IsSend
       => LET d == parsePacket(PayloadOf(tx'.packet), tx'.packet[13])
              w == node'.ecg.lastPQRST
              f == node'.fall
          IN /\ (tx'.packet[13] = 2 /\ node'.ecg.pqrstValid)
                  => /\ d.pqrst_timestamp = w.timestamp
                     /\ d.p_amp = w.p_amp
                     /\ d.q_amp = w.q_amp
                     /\ d.r_amp = w.r_amp
                     /\ d.s_amp = w.s_amp
                     /\ d.t_amp = w.t_amp
             /\ (tx'.packet[13] = 3)
                  => /\ d.timestamp = f.timestamp
                     /\ d.jerk_magnitude = f.jerk_magnitude
                     /\ d.svm_value = f.svm_value
                     /\ d.angular_velocity = f.angular_velocity
                     /\ d.pitch_angle = f.pitch_angle
                     /\ d.roll_angle = f.roll_angle
                     /\ d.accel_x = f.accelX
                     /\ d.accel_y = f.accelY
                     /\ d.accel_z = f.accelZ
                     /\ d.movement_variance = f.movement_variance]_vars


\* C25: every payload that is sent has the length and the type byte of its
\* type, whatever it was built from: 10 bytes starting with 1 for a
\* realtime payload, 65 bytes starting with 2 for an ECG payload (with or
\* without PQRST features), 45 bytes starting with 3 for a fall event; and
\* every element is a byte
C25_PayloadShape ==
  [][IsSend
       => LET p == PayloadOf(tx'.packet)
          IN /\ \A i \in 1..Len(p) : p[i] \in 0..(ByteModulus - 1)
             /\ (node'.vitals # node.vitals) => (Len(p) = 10 /\ p[1] = 1)
             /\ (node'.ecg # node.ecg) => (Len(p) = 65 /\ p[1] = 2)
             /\ (node'.fall # node.fall) => (Len(p) = 45 /\ p[1] = 3)
             /\ p[1] \in {1, 2, 3}
             /\ Len(p) = (IF p[1] = 1 THEN 10 ELSE IF p[1] = 2 THEN 65 ELSE 45)]_vars

\* an ECG packet built without PQRST features was sent: 13 header bytes and
\* 65 payload bytes, the last 14 of them zero
C25_Witness ==
  /\ tx.outcome = "sent"
  /\ ~node.ecg.pqrstValid
  /\ node.ecg.bpm = 72
  /\ Len(tx.packet) = 13 + 65
  /\ tx.packet[14] = 2
  /\ \A i \in 65..78 : tx.packet[i] = 0


\* C26: every packet that was transmitted is 13 header bytes and the
\* payload: "ESP32-001" and a zero byte in bytes 0-9, the frame counter the
\* packet was sent with in bytes 10-11, low byte first, the packet type in
\* byte 12; and once the relay has read the packet, its lastPacket holds
\* that device id, frame counter and type
C26_Header ==
  (tx.count > 0)
    => LET p == tx.packet
           sentWith == (node.frameCounter + FrameCounterModulus - 1)
                         % FrameCounterModulus
       IN /\ Len(p) = 13 + Len(RealtimePayload)
          /\ SubSeq(p, 1, 10) = <<69, 83, 80, 51, 50, 45, 48, 48, 49, 0>>
          /\ p[11] \in 0..255 /\ p[12] \in 0..255
          /\ p[11] + 256 * p[12] = sentWith
          /\ p[13] = 1
          /\ SubSeq(p, 14, Len(p)) = RealtimePayload
          /\ (air = << >>)
               => /\ relay.lastPacket.deviceId
                       = <<69, 83, 80, 51, 50, 45, 48, 48, 49, 0>>
                  /\ relay.lastPacket.frameCounter = sentWith
                  /\ relay.lastPacket.type = 1

\* the relay has read the packet that was sent with frame counter 0x1234
C26_Witness ==
  /\ tx.count = 4661
  /\ air = << >>
  /\ tx.packet[11] = 52 /\ tx.packet[12] = 18
  /\ relay.lastPacket.frameCounter = 4660
  /\ relay.lastPacket.type = 1


\* ------------------------------------------------------------------------
\* Schedule: the periodic transmissions of loop() over time, each
\* radio.transmit succeeding or failing
\* ------------------------------------------------------------------------
MaxLoops == 5

REALTIME_TX_INTERVAL == 60000
ECG_TX_INTERVAL == 306000
READ_INTERVAL_MS == 500

\* the time from one loop() iteration to the next: the closing
\* delay(READ_INTERVAL_MS) alone, or with other work up to one of the
\* two transmission intervals
LoopPeriods == { READ_INTERVAL_MS, REALTIME_TX_INTERVAL, ECG_TX_INTERVAL }

\* LoRaComm::sendUplink as a function of the device state n: whether it
\* returned true, the device afterwards and the packet it built
sendUplink(n, port, data, transmitted) ==
  [ ok |-> n.initialized /\ transmitted,
    node |-> IF n.initialized /\ transmitted
             THEN [n EXCEPT !.frameCounter = NextFrameCounter(@)]
             ELSE n,
    packet |-> BuildPacket(n.frameCounter, port, data) ]

\* loop(), "if (currentTime - lastRealtimeTxTime >= REALTIME_TX_INTERVAL)":
\* the realtime packet is built and sent, and the time is recorded on success
PeriodicRealtime(n, transmitted) ==
  IF n.sched.currentTime - n.sched.lastRealtimeTxTime < REALTIME_TX_INTERVAL
  THEN [ node |-> [n EXCEPT !.sched.realtimeTried = FALSE], sent |-> << >> ]
  ELSE
    LET r == sendUplink(n, 1, RealtimeOf(n.vitals), transmitted)
    IN [ node |-> [r.node EXCEPT
                     !.sched.realtimeTried = TRUE,
                     !.sched.realtimeOk = r.ok,
                     !.sched.realtimeFailTime =
                        IF r.ok THEN -1 ELSE n.sched.currentTime,
                     !.sched.lastRealtimeTxTime =
                        IF r.ok THEN n.sched.currentTime ELSE @],
         sent |-> IF r.ok THEN << r.packet >> ELSE << >> ]

\* loop(), "if (currentTime - lastECGTxTime >= ECG_TX_INTERVAL)": with a
\* heart rate between 40 and 150 the ECG packet is built and sent
PeriodicECG(n, transmitted) ==
  IF \/ n.sched.currentTime - n.sched.lastECGTxTime < ECG_TX_INTERVAL
     \/ ~(n.ecg.bpm > 40 /\ n.ecg.bpm < 150)
  THEN [ node |-> [n EXCEPT !.sched.ecgTried = FALSE], sent |-> << >> ]
  ELSE
    LET r == sendUplink(n, 2, EcgOf(n.ecg), transmitted)
    IN [ node |-> [r.node EXCEPT
                     !.sched.ecgTried = TRUE,
                     !.sched.ecgOk = r.ok,
                     !.sched.ecgFailTime =
                        IF r.ok THEN -1 ELSE n.sched.currentTime,
                     !.sched.lastECGTxTime =
                        IF r.ok THEN n.sched.currentTime ELSE @],
         sent |-> IF r.ok THEN << r.packet >> ELSE << >> ]

\* one iteration of loop() that starts dt after the previous one, with a
\* heart rate of bpm: the realtime transmission, then the ECG transmission.
\* The packets go out whether or not a relay listens; the last one stays in
\* flight.
PeriodicLoop(dt, bpm, realtimeOut, ecgOut) ==
  /\ node.initialized
  /\ ~node.halted
  /\ node.sched.loops < MaxLoops
  /\ LET n == [node EXCEPT !.sched.currentTime = @ + dt,
                           !.sched.loops = @ + 1,
                           !.ecg.bpm = bpm]
         a == PeriodicRealtime(n, realtimeOut)
         b == PeriodicECG(a.node, ecgOut)
         sent == a.sent \o b.sent
     IN /\ node' = b.node
        /\ IF sent = << >>
           THEN /\ tx' = IF a.node.sched.realtimeTried \/ b.node.sched.ecgTried
                         THEN [tx EXCEPT !.outcome = "failed"] ELSE tx
                /\ UNCHANGED air
           ELSE /\ tx' = [ outcome |-> IF b.node.sched.ecgTried /\ ~b.node.sched.ecgOk
                                       THEN "failed" ELSE "sent",
                           count |-> tx.count + Len(sent),
                           packet |-> sent[Len(sent)] ]
                /\ air' = sent[Len(sent)]
  /\ UNCHANGED <<relay, polls>>
  /\ UNCHANGED <<fdVars, host, backend, written>>

NextSchedule ==
  \/ \E ok \in BOOLEAN : Begin(ok)
  \/ \E dt \in LoopPeriods, bpm \in {30, 72}, realtimeOut \in BOOLEAN,
        ecgOut \in BOOLEAN : PeriodicLoop(dt, bpm, realtimeOut, ecgOut)

SpecSchedule == Init /\ [][NextSchedule]_vars

\* an iteration of loop()
IsLoop == node'.sched.loops = node.sched.loops + 1

\* C27: an iteration of loop() that attempts the realtime (ECG) packet after
\* an attempt of it failed starts at least the realtime (ECG) interval
\* after the failed attempt
C27_NoImmediateRetry ==
  [][IsLoop
       => /\ (node'.sched.realtimeTried /\ node.sched.realtimeFailTime >= 0)
               => node'.sched.currentTime - node.sched.realtimeFailTime
                    >= REALTIME_TX_INTERVAL
          /\ (node'.sched.ecgTried /\ node.sched.ecgFailTime >= 0)
               => node'.sched.currentTime - node.sched.ecgFailTime
                    >= ECG_TX_INTERVAL]_vars


\* ------------------------------------------------------------------------
\* Boot: setup() of the device and of the relay with a radio that
\* initialises or not, then the device's periodic transmissions and the
\* relay's reception
\* ------------------------------------------------------------------------
\* setup() of the device: "if (!loraComm.begin()) { ... while(1) delay(1000); }"
DeviceSetup(ok) ==
  /\ ~node.initialized
  /\ ~node.halted
  /\ node' = [node EXCEPT !.initialized = ok, !.halted = ~ok]
  /\ UNCHANGED <<tx, air, relay, polls>>
  /\ UNCHANGED <<fdVars, host, backend, written>>

\* variant: setup() goes on to loop() after a failed radio.begin
RelayBoot_Continues(displayOk, radioOk) ==
  /\ ~relay.booted
  /\ ~relay.halted
  /\ relay' = updateDisplay([relay EXCEPT !.booted = TRUE,
                                          !.halted = ~radioOk,
                                          !.displayAvailable = displayOk,
                                          !.needsFullRefresh = TRUE])
  /\ UNCHANGED <<node, tx, air, polls>>
  /\ UNCHANGED <<fdVars, host, backend, written>>

\* setup() of the relay: initDisplay succeeds or fails, then radio.begin
\* succeeds, or fails and setup() stays in "while (true) { delay(1000); }"
RelayBoot(displayOk, radioOk) ==
  /\ ~relay.booted
  /\ ~relay.halted
  /\ relay' = IF radioOk
              THEN updateDisplay([relay EXCEPT !.booted = TRUE,
                                               !.displayAvailable = displayOk,
                                               !.needsFullRefresh = TRUE])
              ELSE [relay EXCEPT !.halted = TRUE,
                                 !.displayAvailable = displayOk]
  /\ UNCHANGED <<node, tx, air, polls>>
  /\ UNCHANGED <<fdVars, host, backend, written>>

NextBoot ==
  \/ \E ok \in BOOLEAN : DeviceSetup(ok)
  \/ \E dt \in {REALTIME_TX_INTERVAL, ECG_TX_INTERVAL}, bpm \in {72},
        realtimeOut \in BOOLEAN, ecgOut \in BOOLEAN :
       PeriodicLoop(dt, bpm, realtimeOut, ecgOut)
  \/ \E displayOk \in BOOLEAN, radioOk \in BOOLEAN : RelayBoot(displayOk, radioOk)
  \/ Deliver

SpecBoot == Init /\ [][NextBoot]_vars

\* C28: a device whose radio failed to initialise has transmitted nothing
\* and does nothing further; a relay whose radio failed to initialise has
\* received, counted and forwarded nothing and does nothing further
C28_RadioFailureHalts ==
  [][/\ node'.halted => /\ tx'.count = 0
                        /\ tx'.packet = << >>
                        /\ ~node'.initialized
     /\ node.halted => (node' = node /\ tx' = tx)
     /\ relay'.halted => /\ relay'.packetsReceived = 0
                         /\ relay'.packetsSkipped = 0
                         /\ relay'.forwarded = 0
                         /\ relay'.lastRxLength = 0
     /\ relay.halted => (relay' = relay /\ (air # << >> => air' # << >>))]_vars

\* the relay's radio failed to initialise while the device runs: the device
\* has transmitted twice, a packet is in flight and the relay has read none
C28_Witness ==
  /\ relay.halted
  /\ ~node.halted
  /\ tx.count = 2
  /\ air # << >>
  /\ relay.forwarded = 0


\* ------------------------------------------------------------------------
\* Serial line: the relay forwards packets to the host, bursts of other
\* bytes appear on the line between frames, and the host parses what has
\* arrived
\* ------------------------------------------------------------------------
MaxFrames == 2
MaxNoise == 2

\* the host's parser run on the bytes that have arrived: a byte other than
\* 0xAA is discarded; after 0xAA come the length, two signal bytes, that
\* many payload bytes and 0x55, and the frame is delivered with the offsets
\* of the signal bytes inverted; if the end marker is not there one byte is
\* discarded and the scan goes on; a frame that has not arrived whole waits
RECURSIVE HostParse(_)
HostParse(h) ==
  IF h.line = << >> THEN h
  ELSE IF h.line[1] # 170
  THEN HostParse([h EXCEPT !.line = Tail(@), !.skipped = @ + 1])
  ELSE IF Len(h.line) < 2 \/ Len(h.line) < h.line[2] + 5 THEN h
  ELSE IF h.line[h.line[2] + 5] = 85
  THEN HostParse([h EXCEPT
         !.line = From(@, h.line[2] + 6),
         !.delivered = Append(@, [ payload |-> SubSeq(h.line, 5, h.line[2] + 4),
                                    rssi |-> h.line[3] - 150,
                                    snr |-> h.line[4] - 20 ])])
  ELSE HostParse([h EXCEPT !.line = Tail(@), !.skipped = @ + 1])

\* packets the relay forwards: a realtime packet and an ECG-type packet whose
\* payload holds the bytes 0xAA and 0x55
SerialPackets ==
  { BuildPacket(0, 1, RealtimePayload), BuildPacket(1, 2, <<2, 170, 85>>) }

\* radio.getRSSI() in dBm; -65 dBm is sent as the byte 0x55
SerialRssi == {-65, -30}

\* bursts of bytes on the line that no frame contains
Garbage == { <<0>>, <<85, 7>>, <<170, 0>>, <<7, 170, 1, 85>> }

\* loop() of the relay reads a packet and writes its frame to the line
SerialForward ==
  \E buf \in SerialPackets, rssi \in SerialRssi, snr4 \in SnrValues :
    /\ relay.booted
    /\ Len(host.sent) < MaxFrames
    /\ \E snrByte \in SnrBytes(snr4) :
         relay' = RelayLoop(relay, buf, rssi, snr4, snrByte)
    /\ air' = buf
    /\ host' = IF relay'.forwarded = relay.forwarded + 1
               THEN [host EXCEPT
                       !.line = @ \o relay'.lastFrame,
                       !.sent = Append(@, [ payload |-> buf, rssi |-> rssi,
                                            snr4 |-> snr4 ])]
               ELSE host
    /\ UNCHANGED <<node, tx, polls>>
    /\ UNCHANGED <<fdVars, backend, written>>

\* a burst of other bytes appears on the line
LineNoise ==
  \E g \in Garbage :
    /\ Len(host.noise) < MaxNoise
    /\ host' = [host EXCEPT !.line = @ \o g, !.noise = Append(@, g)]
    /\ UNCHANGED <<node, tx, air, relay, polls>>
    /\ UNCHANGED <<fdVars, backend, written>>

\* the host parses what has arrived
HostRead ==
  /\ host.line # << >>
  /\ host' = HostParse(host)
  /\ UNCHANGED <<node, tx, air, relay, polls>>
  /\ UNCHANGED <<fdVars, backend, written>>

NextSerial ==
  \/ RelaySetup(FALSE)
  \/ SerialForward
  \/ LineNoise
  \/ HostRead

SpecSerial == Init /\ [][NextSerial]_vars

\* delivered frame d is forwarded packet f: the same payload, the rssi the
\* relay had, and the snr it had with its fraction of a dB dropped
SameFrame(d, f) ==
  /\ d.payload = f.payload
  /\ d.rssi = f.rssi
  /\ 4 * d.snr <= f.snr4 /\ f.snr4 < 4 * d.snr + 4

\* the first n forwarded packets are among the delivered frames from
\* position i on, in order
RECURSIVE DeliveredFrom(_, _)
DeliveredFrom(i, n) ==
  IF n > Len(host.sent) THEN TRUE
  ELSE \E j \in i..Len(host.delivered) :
         SameFrame(host.delivered[j], host.sent[n]) /\ DeliveredFrom(j + 1, n + 1)

\* C29 as claimed: whatever bytes appeared on the line between the frames,
\* once the parser has consumed the line every forwarded packet has been
\* delivered with its payload, rssi and snr
C29_ResyncAfterAnyGarbage ==
  (host.line = << >>) => DeliveredFrom(1, 1)

\* no burst of other bytes held the start marker
MarkerFree == \A i \in 1..Len(host.noise) :
                \A j \in 1..Len(host.noise[i]) : host.noise[i][j] # 170

\* the number of bytes in the bursts
RECURSIVE NoiseBytes(_)
NoiseBytes(i) ==
  IF i > Len(host.noise) THEN 0 ELSE Len(host.noise[i]) + NoiseBytes(i + 1)

\* the host's parser has run
IsHostRead ==
  host.line # << >> /\ host'.sent = host.sent /\ host'.noise = host.noise
    /\ relay' = relay

\* C29 amended: as long as the other bytes on the line hold no 0xAA, the
\* parser consumes all that has arrived, and then the delivered frames are
\* exactly the forwarded packets, each with its payload, rssi and snr, and
\* the discarded bytes are exactly the other bytes
C29_ResyncAfterMarkerFreeGarbage ==
  [][MarkerFree'
       => /\ IsHostRead => host'.line = << >>
          /\ (host'.line = << >>)
               => /\ Len(host'.delivered) = Len(host'.sent)
                  /\ \A i \in 1..Len(host'.sent) :
                       SameFrame(host'.delivered[i], host'.sent[i])
                  /\ host'.skipped = NoiseBytes(1)']_vars

\* two bursts without a start marker and two packets have gone over the
\* line, the second packet with 0xAA and 0x55 in its payload and sent with
\* the rssi byte 0x55, and the parser has delivered both
C29_Witness ==
  /\ MarkerFree
  /\ Len(host.noise) = 2
  /\ host.line = << >>
  /\ host.skipped = 3
  /\ Len(host.delivered) = 2
  /\ host.delivered[2].payload = BuildPacket(1, 2, <<2, 170, 85>>)
  /\ host.delivered[2].rssi = -65


\* ------------------------------------------------------------------------
\* Alerts: the API server handles realtime packets posted over time
\* ------------------------------------------------------------------------
MaxPosts == 3

ALERT_COOLDOWN_MS == 300000

\* isAlertInCooldown at time t on the map m: entries older than the cooldown
\* are removed, then the key of device, type and current minute is looked
\* up and, if absent, stored; the result and the map afterwards
isAlertInCooldown(m, t, deviceId, alertType) ==
  LET minute == t \div 60000
      kept == { e \in m : ~(e.timestamp < t - ALERT_COOLDOWN_MS) }
      present == \E e \in kept : /\ e.device = deviceId
                                 /\ e.type = alertType
                                 /\ e.minute = minute
  IN [ result |-> present,
       map |-> IF present THEN kept
               ELSE kept \cup { [ device |-> deviceId, type |-> alertType,
                                  minute |-> minute, timestamp |-> t ] } ]

\* "if ((alertFlags & mask) !== 0 && !isAlertInCooldown(device_id, type))
\* sendAlert(type, ...)" on the server state b
CheckAlert(b, deviceId, alertFlags, mask, alertType) ==
  IF ~BitSet(alertFlags, mask) THEN b
  ELSE
    LET c == isAlertInCooldown(b.sentAlerts, b.now, deviceId, alertType)
    IN IF c.result THEN [b EXCEPT !.sentAlerts = c.map]
       ELSE [b EXCEPT !.sentAlerts = c.map,
                      !.lastAlert[deviceId][alertType] = b.now]

\* POST /api/sensor-data with a realtime packet, dt after the previous
\* request: the four alert checks in order
PostSensorData(dt, deviceId, alertFlags) ==
  /\ backend.posts < MaxPosts
  /\ LET b0 == [backend EXCEPT !.now = @ + dt, !.posts = @ + 1]
         b1 == CheckAlert(b0, deviceId, alertFlags, 1, "heart_rate")
         b2 == CheckAlert(b1, deviceId, alertFlags, 2, "temperature")
         b3 == CheckAlert(b2, deviceId, alertFlags, 4, "fall")
         b4 == CheckAlert(b3, deviceId, alertFlags, 8, "noise")
     IN backend' = b4
  /\ UNCHANGED <<node, tx, air, relay, polls, host, written>>
  /\ UNCHANGED fdVars

\* times between requests: one second, one minute, five minutes
PostPeriods == { 1000, 60000, 300000 }

NextAlerts ==
  \E dt \in PostPeriods, deviceId \in Devices, alertFlags \in {0, 1, 2, 8, 11} :
    PostSensorData(dt, deviceId, alertFlags)

SpecAlerts == Init /\ [][NextAlerts]_vars

\* C30: a heart-rate, temperature or noise alert for a device is sent at
\* least 5 minutes after the previous alert of that type for that device
C30_AlertCooldown ==
  [][\A d \in Devices, t \in {"heart_rate", "temperature", "noise"} :
       (backend'.lastAlert[d][t] # backend.lastAlert[d][t]
          /\ backend.lastAlert[d][t] >= 0)
         => backend'.lastAlert[d][t] - backend.lastAlert[d][t] >= 300000]_vars


\* ------------------------------------------------------------------------
\* Fleet: the relay's loop() fed packets of two devices, some of them
\* shorter than the payload their type announces
\* ------------------------------------------------------------------------
MaxFleetPackets == 3

\* the characters of "ESP32-002", the id of a second device
SecondDevice == <<69, 83, 80, 51, 50, 45, 48, 48, 50>>

\* the packet sendUplink builds on a device whose DEVICE_ID is id
PacketOf(id, fc, port, data) ==
  DeviceIdField(id) \o EncodeFrameCounter(fc) \o <<port>> \o data

\* realtime packets of the two devices under the same and under different
\* frame counters, a realtime packet cut off after the heart rate, a fall
\* event packet cut off after its type byte, and an ECG packet
FleetPackets ==
  { PacketOf(DEVICE_ID, 1, 1, DangerousPayload),
    PacketOf(SecondDevice, 1, 1, RealtimePayload),
    PacketOf(SecondDevice, 2, 1, RealtimePayload),
    PacketOf(DEVICE_ID, 2, 1, <<1, 90>>),
    PacketOf(DEVICE_ID, 3, 3, <<3>>),
    PacketOf(SecondDevice, 3, 2, <<2, 0, 0>>) }

\* loop() reads one of the fleet's packets, received at -80 dBm and 9.75 dB
FleetReceive ==
  \E buf \in FleetPackets :
    /\ relay.booted
    /\ polls < MaxFleetPackets
    /\ polls' = polls + 1
    /\ \E snrByte \in SnrBytes(39) :
         relay' = RelayLoop(relay, buf, -80, 39, snrByte)
    /\ air' = buf
    /\ UNCHANGED <<node, tx>>
    /\ UNCHANGED <<fdVars, host, backend, written>>

NextFleet ==
  \/ \E displayOk \in BOOLEAN : RelaySetup(displayOk)
  \/ FleetReceive

SpecFleet == Init /\ [][NextFleet]_vars

\* C33: once the relay has accepted its first valid packet, the received
\* count is 1, whatever the packet's frameCounter.
C33_FirstPacketCounted ==
  (relay.forwarded = 1) => relay.packetsReceived = 1

\* C34: a loop() that reads a valid packet whose frameCounter equals that
\* of the previous valid packet writes no frame to the serial link.
C34_RedeliveryNotForwarded ==
  [][(IsReceive /\ ~Malformed(air') /\ relay.forwarded > 0
        /\ DecodeFrameCounter(air') = DecodeFrameCounter(relay.lastForwarded))
       => /\ relay'.forwarded = relay.forwarded
          /\ relay'.lastFrame = relay.lastFrame]_vars

\* C35: a loop() that reads a valid packet of another device than the
\* previous valid packet raises the received count by one, also when the
\* two packets carry the same frameCounter.
C35_DedupPerDevice ==
  [][(IsReceive /\ ~Malformed(air') /\ relay.forwarded > 0
        /\ SubSeq(air', 1, 10) # SubSeq(relay.lastForwarded, 1, 10))
       => relay'.packetsReceived = relay.packetsReceived + 1]_vars

\* C36: the stored last-valid telemetry is what the last accepted packet
\* alone determines: every field is the one parsing that packet into a blank
\* record gives, and none is left over from an earlier packet.
C36_TelemetryFromOnePacket ==
  (relay.forwarded > 0)
    => relay.lastPacket = parsePacketInfo(InitLastPacket, relay.lastForwarded)


\* the well-formed message m waits in full at position k + 1 of the input
WaitsAt(m, k) ==
  /\ k + 10 <= Len(relay.serialIn)
  /\ SubSeq(relay.serialIn, k + 1, k + 10) = m

\* C37 as stated: a well-formed message is never consumed and lost: when a
\* loop() takes a waiting message off the serial input, whatever bytes wait
\* before it, the clock shows the time of that message afterwards.
C37_MessageNeverLost ==
  [][\A m \in {SyncNoon, SyncNight} : \A k \in 0..Len(relay.serialIn) :
       (IsReceive /\ WaitsAt(m, k)
          /\ Len(relay'.serialIn) < Len(relay.serialIn) - k)
         => relay'.currentTime = SyncedTime(m)]_vars

\* the well-formed message m waits in full behind bytes none of which is
\* 0xFF
WaitsBehindPlainGarbage(m) ==
  \E k \in 0..Len(relay.serialIn) :
    /\ WaitsAt(m, k)
    /\ \A i \in 1..k : relay.serialIn[i] # 255

\* C37, amended: a well-formed message that waits behind bytes none of
\* which is 0xFF is eventually applied to the clock, as long as loop()
\* iterations remain.
C37_AppliedAfterPlainGarbage ==
  \A m \in {SyncNoon, SyncNight} :
    (WaitsBehindPlainGarbage(m) /\ polls < MaxLineLoops)
      ~> (relay.currentTime = SyncedTime(m))

\* the host wrote the three bytes AA FE FD and then the noon message, and
\* one loop() has discarded the three bytes and set the clock from the
\* message
C37_Witness ==
  /\ written = << <<170, 254, 253>>, SyncNoon >>
  /\ polls = 1
  /\ relay.serialIn = <<>>
  /\ relay.currentTime = SyncedTime(SyncNoon)


\* C38: a call that finds the detector in FALL_DETECTED either leaves it for
\* DANGEROUS or RECOVERY on the verdict, or keeps it there with the time of
\* entry unchanged and, once the grace period is over and a sample is due,
\* with one more sample in the window: the time in FALL_DETECTED is bounded
\* by the grace period plus one sampling interval (or call period) per
\* missing sample.
C38_FallDetectedBounded ==
  [][(IsTick /\ fd.current_state = FALL_DETECTED)
       => \/ /\ Len(path') = 7
             /\ path'[4] = FALL_DETECTED
             /\ path'[5] \in {DANGEROUS, RECOVERY}
          \/ /\ fd'.current_state = FALL_DETECTED
             /\ fd'.state_change_time = fd.state_change_time
             /\ \/ ~GraceElapsed(fd, now')
                \/ ~SamplingDue(fd, now')
                \/ fd'.immobility_buffer.sample_count
                     = fd.immobility_buffer.sample_count + 1]_vars


\* ------------------------------------------------------------------------
\* Monitor: loop() on the device, from one detectFall call to the
\* transmissions that report the fall state. The wearer is at rest, may fall
\* early or late in the first minute, and then stirs (after the early fall)
\* or lies still (after the late one); each transmission succeeds or fails.
\* ------------------------------------------------------------------------
MonitorLength == 120

\* the iterations in which the wearer may fall
FallPositions == {2, 105}

\* the time from one loop() iteration to the next
MonitorDt == {550}

MonitorReadings ==
  IF fd.last_fall_time = 0
  THEN IF (script + 1) \in FallPositions
       THEN { Reading(AtRest, NoRotation) } \cup FallReadings
       ELSE { Reading(AtRest, NoRotation) }
  ELSE IF fd.last_fall_time < 30000 /\ script % 2 = 0
       THEN { Reading(Stirring, NoRotation) }
       ELSE { Reading(AtRest, NoRotation) }

\* loop(), "if (fall_event.state != previousFallState)": a change to
\* FALL_DETECTED or DANGEROUS, or from one of them to NORMAL, raises
\* stateChangeNotified
StateChange(nt, state) ==
  IF state = nt.previousFallState THEN nt
  ELSE [nt EXCEPT
          !.stateChangeNotified =
             \/ @
             \/ state = FALL_DETECTED
             \/ state = DANGEROUS
             \/ (nt.previousFallState \in {FALL_DETECTED, DANGEROUS}
                   /\ state = NORMAL),
          !.previousFallState = state]

\* variant: the fall bit is left out of the immediate packet
ImmediateOf_NoFallBit(v, state) ==
  buildRealtimePayload(v.bpm, v.currentTemp, v.ambientTemp, NoiseToSend(v),
                       state, v.hrStatus # 0, v.tempStatus >= 3,
                       FALSE, v.maxNoisedB >= 800)

\* the payload loop() builds for the immediate realtime packet
ImmediateOf(v, state) ==
  buildRealtimePayload(v.bpm, v.currentTemp, v.ambientTemp, NoiseToSend(v),
                       state, v.hrStatus # 0, v.tempStatus >= 3,
                       state >= FALL_DETECTED, v.maxNoisedB >= 800)

\* loop(), "if (stateChangeNotified)": one attempt, then the flag is reset
ImmediateRealtime(n, state, transmitted) ==
  IF ~n.notify.stateChangeNotified
  THEN [ node |-> [n EXCEPT !.notify.alertSent = << >>], sent |-> << >> ]
  ELSE
    LET r == sendUplink(n, 1, ImmediateOf(n.vitals, state), transmitted)
    IN [ node |-> [r.node EXCEPT
                     !.notify.stateChangeNotified = FALSE,
                     !.notify.alertSent =
                        IF r.ok THEN ImmediateOf(n.vitals, state) ELSE << >>],
         sent |-> IF r.ok THEN << r.packet >> ELSE << >> ]

\* loop(), "if (fall_event.confirmed && !fallEventTriggered)": one attempt
\* of the fall event packet, then the reset of fallEventTriggered in NORMAL
\* and RECOVERY
FallEventTx(n, ev, transmitted) ==
  LET a == IF ev.confirmed /\ ~n.notify.fallEventTriggered
           THEN LET r == sendUplink(n, 3, FallOf(n.fall), transmitted)
                IN [ node |-> [r.node EXCEPT
                                 !.notify.eventTried = TRUE,
                                 !.notify.eventOk = r.ok,
                                 !.notify.eventFailed = ~r.ok,
                                 !.notify.fallEventTriggered =
                                    IF r.ok THEN TRUE ELSE @],
                     sent |-> IF r.ok THEN << r.packet >> ELSE << >> ]
           ELSE [ node |-> [n EXCEPT !.notify.eventTried = FALSE,
                                     !.notify.eventOk = FALSE],
                  sent |-> << >> ]
  IN [ node |-> IF ev.state = NORMAL \/ ev.state = RECOVERY
                THEN [a.node EXCEPT !.notify.fallEventTriggered = FALSE]
                ELSE a.node,
       sent |-> a.sent ]

\* the fall state a realtime payload carries is FALL_DETECTED or DANGEROUS
CarriesFall(payload) ==
  payload # << >> /\ payload[6] \in {FALL_DETECTED, DANGEROUS}

\* the bookkeeping of fallPending and sentSince after an iteration in which
\* a fall was confirmed or not and the packets of n went out
Reported(n, confirmed, periodic) ==
  LET carried == \/ n.notify.eventOk
                 \/ CarriesFall(n.notify.alertSent)
                 \/ CarriesFall(periodic)
      other == \/ (n.notify.alertSent # << >> /\ ~CarriesFall(n.notify.alertSent))
               \/ (periodic # << >> /\ ~CarriesFall(periodic))
      pending == (n.notify.fallPending \/ confirmed) /\ ~carried
  IN [n EXCEPT !.notify.periodicSent = periodic,
               !.notify.fallPending = pending,
               !.notify.sentSince =
                  pending /\ ((~confirmed /\ n.notify.sentSince) \/ other)]

\* one iteration of loop(): detectFall on the reading sd, dt after the
\* previous iteration, then the state-change packet, the fall event packet
\* and the periodic packets, each transmission succeeding or failing
MonitorLoop(sd, dt, alertOut, eventOut, realtimeOut) ==
  /\ node.initialized
  /\ ~node.halted
  /\ fd.is_calibrated
  /\ cfg # DefaultConfig
  /\ script < MonitorLength
  /\ script' = script + 1
  /\ ticks' = ticks + 1
  /\ detectFall(sd, dt)
  /\ LET ev == fd'.latest_event
         n == [node EXCEPT !.sched.currentTime = @ + dt,
                           !.vitals.fallState = ev.state,
                           !.notify = StateChange(@, ev.state)]
         a == ImmediateRealtime(n, ev.state, alertOut)
         b == FallEventTx(a.node, ev, eventOut)
         c == PeriodicRealtime(b.node, realtimeOut)
         d == PeriodicECG(c.node, FALSE)
         sent == a.sent \o b.sent \o c.sent \o d.sent
         periodic == IF c.sent = << >> THEN << >> ELSE RealtimeOf(b.node.vitals)
         tried == \/ n.notify.stateChangeNotified
                  \/ b.node.notify.eventTried
                  \/ c.node.sched.realtimeTried
     IN /\ node' = Reported(d.node, scored'.fall_confirmed, periodic)
        /\ IF sent = << >>
           THEN /\ tx' = IF tried THEN [tx EXCEPT !.outcome = "failed"] ELSE tx
                /\ UNCHANGED air
           ELSE /\ tx' = [ outcome |-> "sent", count |-> tx.count + Len(sent),
                           packet |-> sent[Len(sent)] ]
                /\ air' = sent[Len(sent)]
  /\ UNCHANGED <<relay, polls, host, backend, written>>

NextMonitor ==
  \/ Begin(TRUE)
  \/ SetSensitivityProfile(2)
  \/ Calibrate(0, 0)
  \/ \E sd \in MonitorReadings, dt \in MonitorDt, alertOut \in BOOLEAN,
        eventOut \in BOOLEAN, realtimeOut \in BOOLEAN :
       MonitorLoop(sd, dt, alertOut, eventOut, realtimeOut)

SpecMonitor == Init /\ [][NextMonitor]_vars


\* C31: a confirmed fall is not left unreported: the detector is never back
\* in NORMAL with the fall still carried by no transmitted packet although a
\* packet has been transmitted since the fall was confirmed.
C31_FallReported ==
  ~(/\ node.notify.fallPending
    /\ node.notify.sentSince
    /\ fd.current_state = NORMAL)

\* C32: a fall event packet whose transmission failed is attempted again in
\* a later iteration: the detector is never back in NORMAL with the failed
\* attempt still the latest one.
C32_FailedEventRetried ==
  ~(node.notify.eventFailed /\ fd.current_state = NORMAL)

\* C39: in every realtime payload transmitted, immediate or periodic, bit 2
\* of the alert flags (byte 6) is set exactly when the fall state (byte 5)
\* is FALL_DETECTED or DANGEROUS.
C39_FallBitMatchesState ==
  \A payload \in {node.notify.alertSent, node.notify.periodicSent} :
    (payload # << >>)
      => (BitSet(payload[7], 4) <=> payload[6] \in {FALL_DETECTED, DANGEROUS})

\* one iteration transmitted the immediate packet for the change to
\* DANGEROUS and the periodic packet, both with the fall bit
C39_Witness ==
  /\ node.notify.alertSent # << >>
  /\ node.notify.alertSent[6] = DANGEROUS
  /\ BitSet(node.notify.alertSent[7], 4)
  /\ node.notify.periodicSent # << >>
  /\ node.notify.periodicSent[6] = DANGEROUS
  /\ tx.count >= 2

\* ------------------------------------------------------------------------
\* Spinning: a calibrated wearer at rest who turns steadily for minutes
\* (a swivel chair, a roundabout), sampled at the loop's period; no reading
\* touches the acceleration or jerk thresholds
\* ------------------------------------------------------------------------
SpinLength == 257

SpinDt == {500}

SpinReadings == { Reading(AtRest, Turning), Reading(AtRest, NoRotation) }

SpinTick ==
  \E sd \in SpinReadings, dt \in SpinDt :
    /\ fd.is_calibrated
    /\ cfg # DefaultConfig
    /\ ticks < SpinLength
    /\ ticks' = ticks + 1
    /\ DetectFall(sd, dt)
    /\ UNCHANGED script

NextSpin ==
  \/ SetSensitivityProfile(2)
  \/ Calibrate(0, 0)
  \/ SpinTick

SpecSpin == Init /\ [][NextSpin]_vars

\* the call reset the counters: stage 5 left WARNING, by the bowing
\* rejection, the confirmation or the warning timeout
CountersReset ==
  /\ Len(path') >= 4
  /\ path'[3] = WARNING
  /\ path'[4] # WARNING

\* C40: the impact, warning and sustained-rotation counters never wrap: a
\* call of detectFall lowers a counter by one (decay) at most, unless the
\* call reset the counters on leaving WARNING.
C40_CountersNeverWrap ==
  [][ \/ CountersReset
      \/ /\ fd'.impact_counter >= fd.impact_counter - 1
         /\ fd'.warning_counter >= fd.warning_counter - 1
         /\ fd'.gyro_sustained_counter >= fd.gyro_sustained_counter - 1 ]_vars

====
